---- MODULE Spec2Model ----
(***************************************************************************)
(* Link validation and sequential part discovery of the IDM multipart      *)
(* downloader: URLValidator (validator.py), URLGenerator                   *)
(* (url_generator.py), the landing-page resolver                           *)
(* (download_link_resolver.py) and the input-list mode of main.py.         *)
(*                                                                         *)
(* Text is modelled as a sequence of atoms (short strings that the code    *)
(* never looks inside): "https://", "host", "/", ".rar", ";", " ", a       *)
(* decimal digit, ...  Parsing, splitting, stripping, lower-casing and     *)
(* integer conversion are computed on these sequences.  An optional value  *)
(* (Python None) is the empty sequence, a present value v is <<v>>.        *)
(***************************************************************************)
EXTENDS Integers, Sequences, FiniteSets, TLC

VARIABLES
    scope,        \* which entry point is running: "generate", "input", "validate",
                  \* "classify", "resolve"
    config,       \* AppConfig / URLValidator fields, fixed after construction
    gpc,          \* URLGenerator.generate: position
    index,        \* generate: index
    examined,     \* generate: examined
    parts,        \* generate: parts
    seen_urls,    \* generate: seen_urls
    stop_reason,  \* generate: stop_reason
    stop_index,   \* generate: stop_index (<<>> is None)
    report,       \* the GenerationReport returned (<<>> until generate returns)
    probes,       \* history: <<index, url, result>> of every validate() call of the run
    resolves,     \* history: <<index, url, result>> of every resolver call of the run
    vpc,          \* URLValidator.validate: position
    vurl,         \* validate: url
    attempt,      \* validate: attempt
    result,       \* the ValidationResult returned (<<>> until validate returns)
    netlog,       \* history: the session calls and sleeps of the current validate()
    headResp,     \* the response of the HEAD request of the current attempt (<<>> if none)
    getResp,      \* the response of the fallback GET of the current attempt (<<>> if none)
    resp,         \* classify: the (status_code, size_bytes, headers) under classification
    rpc,          \* resolve_download_button_link: position
    rurl,         \* resolve: url
    resolved,     \* the ResolveResult returned (<<>> until resolve returns)
    rlog,         \* history: the page fetch and the browser calls of the current resolve
    driver,       \* _resolve_with_selenium_click: driver ("none", "open", "quit")
    page,         \* the response of the page fetch (<<>> if none)
    exit_code,    \* main: the value returned (<<>> until main returns)
    resume_urls,  \* run: resume_urls, the set handed to reconcile and to queue_parts
    state_dir,    \* the IDM state directory on disk
    reconciled,   \* history: the sets returned by successive reconcile_resume_urls calls
    dry_run,      \* run: dry_run
    files,        \* the entries of the download directory: name -> "file" or "dir"
    qparts,       \* queue_parts: parts
    qpc,          \* queue_parts: position
    qi,           \* queue_parts: the position of the loop in parts
    queued_count, \* queue_parts: queued_count
    skipped_count,  \* queue_parts: skipped_count
    updated_resume, \* queue_parts: updated_resume
    queue_seen,   \* queue_parts: seen_urls
    interrupted,  \* queue_parts: interrupted
    sticky_existing_action,  \* queue_parts: sticky_existing_action (<<>> is None)
    idm,          \* history: the queue_download calls and how the IDM process ended
    prompts,      \* history: the answers given to _prompt_existing_file_action
    runpc,        \* run: position ("none" where run itself is not part of the run)
    resume_mode,  \* run: resume_mode
    resume_file,  \* the queued_urls of the resume state file on disk
    saves,        \* history: the save_resume_state calls and how they ended
    started       \* history: the launch_via_shortcut and start_queue calls

genVars == <<gpc, index, examined, parts, seen_urls, stop_reason, stop_index, report, probes,
            resolves>>
valVars == <<vpc, vurl, attempt, result, netlog, headResp, getResp>>
resVars == <<rpc, rurl, resolved, rlog, driver, page>>
recVars == <<resume_urls, state_dir, reconciled>>
queueVars == <<dry_run, files, qparts, qpc, qi, queued_count, skipped_count, updated_resume,
              queue_seen, interrupted, sticky_existing_action, idm, prompts>>
runVars == <<runpc, resume_mode, resume_file, saves, started>>
mainVars == <<exit_code, recVars, queueVars, runVars>>
vars == <<scope, config, genVars, valVars, resp, resVars, mainVars>>

----------------------------------------------------------------------------
(* Bounds of the model *)

MaxStart == 1
MaxSpan == 2
MaxPartBound == 3
MaxRetry == 2
MaxPadding == 2
MaxInputs == 2
MaxPolls == 2
MaxFiles == 2
MaxRounds == 2
MaxQueue == 2

----------------------------------------------------------------------------
(* Text helpers *)

None == <<>>
Some(v) == <<v>>

Digit == {"0", "1", "2", "3", "4", "5", "6", "7", "8", "9"}
DigitChar == <<"0", "1", "2", "3", "4", "5", "6", "7", "8", "9">>
DigitVal(c) == CHOOSE d \in 0..9 : DigitChar[d + 1] = c

\* str(n) for n >= 0
RECURSIVE Str(_)
Str(n) == IF n < 10 THEN <<DigitChar[n + 1]>>
          ELSE Str(n \div 10) \o <<DigitChar[(n % 10) + 1]>>

\* str.zfill(width)
RECURSIVE ZFill(_, _)
ZFill(s, width) == IF Len(s) >= width THEN s ELSE ZFill(<<"0">> \o s, width)

\* the value of a sequence of digits
RECURSIVE DigitsVal(_)
DigitsVal(s) == IF s = <<>> THEN 0
                ELSE 10 * DigitsVal(SubSeq(s, 1, Len(s) - 1)) + DigitVal(s[Len(s)])

RECURSIVE LStrip(_, _)
LStrip(s, chars) == IF s /= <<>> /\ s[1] \in chars THEN LStrip(Tail(s), chars) ELSE s

RECURSIVE RStrip(_, _)
RStrip(s, chars) == IF s /= <<>> /\ s[Len(s)] \in chars
                    THEN RStrip(SubSeq(s, 1, Len(s) - 1), chars) ELSE s

Strip(s, chars) == LStrip(RStrip(s, chars), chars)

White == {" "}

\* str.lower(), atom by atom
LowerAtom(a) ==
    CASE a = "TEXT/HTML" -> "text/html"
      [] a = ".RAR" -> ".rar"
      [] a = "APPLICATION/VND.RAR" -> "application/vnd.rar"
      [] a = "FILENAME=" -> "filename="
      [] a = "filename*=UTF-8''" -> "filename*=utf-8''"
      [] a = "WINDOW.OPEN(" -> "window.open("
      [] a = "HREF" -> "href"
      [] a = "HOST" -> "host"
      [] a = "AAA" -> "aaa"
      [] a = "BBB" -> "bbb"
      [] a \in {"fileA", "FILEA"} -> "filea"
      [] a = "fileB" -> "fileb"
      [] a = "%2Erar" -> "%2erar"
      [] OTHER -> a

Lower(s) == [i \in 1..Len(s) |-> LowerAtom(s[i])]

\* int(text): <<value>>, or <<>> where Python raises ValueError
ParseInt(s) ==
    LET t == Strip(s, White)
        signed == t /= <<>> /\ t[1] \in {"-", "+"}
        digits == IF signed THEN Tail(t) ELSE t
    IN  IF digits = <<>> \/ \E i \in 1..Len(digits) : digits[i] \notin Digit
        THEN None
        ELSE Some(IF signed /\ t[1] = "-" THEN 0 - DigitsVal(digits) ELSE DigitsVal(digits))

\* the positions of atom c in s
Positions(s, c) == {i \in 1..Len(s) : s[i] = c}
Max(S) == CHOOSE x \in S : \A y \in S : y <= x
Min(S) == CHOOSE x \in S : \A y \in S : x <= y

\* text.split(sep, maxsplit=1)[0]
SplitFirst(s, sep) ==
    IF Positions(s, sep) = {} THEN s ELSE SubSeq(s, 1, Min(Positions(s, sep)) - 1)

\* text.rsplit(sep, maxsplit=1)[-1]
RSplitLast(s, sep) ==
    IF Positions(s, sep) = {} THEN s ELSE SubSeq(s, Max(Positions(s, sep)) + 1, Len(s))

\* name.endswith(".rar") on lower-cased text
EndsWithRar(s) == s /= <<>> /\ s[Len(s)] = ".rar"

----------------------------------------------------------------------------
(* urllib.parse.urlparse, as far as the code reads its result *)

NetlocSchemes == {"http://", "https://", "ftp://"}
BareSchemes == {"mailto:", "javascript:", "about:"}

urlparse(u) ==
    LET hashes == Positions(u, "#")
        body == IF hashes = {} THEN u ELSE SubSeq(u, 1, Min(hashes) - 1)
        frag == IF hashes = {} THEN <<>> ELSE SubSeq(u, Min(hashes) + 1, Len(u))
        hasScheme == body /= <<>> /\ body[1] \in (NetlocSchemes \cup BareSchemes)
        rest == IF hasScheme THEN Tail(body) ELSE body
        slashes == Positions(rest, "/")
        hasNetloc == hasScheme /\ body[1] \in NetlocSchemes
        netloc == IF ~hasNetloc THEN <<>>
                  ELSE IF slashes = {} THEN rest
                  ELSE SubSeq(rest, 1, Min(slashes) - 1)
        path == IF ~hasNetloc THEN rest
                ELSE IF slashes = {} THEN <<>>
                ELSE SubSeq(rest, Min(slashes), Len(rest))
    IN  [scheme |-> IF hasScheme THEN <<body[1]>> ELSE <<>>,
         netloc |-> netloc, path |-> path, fragment |-> frag]

----------------------------------------------------------------------------
(* validator.py *)

ValidationResult(is_valid, status_code, size_bytes, kind, num, detail) ==
    [is_valid |-> is_valid, status_code |-> status_code, size_bytes |-> size_bytes,
     reason |-> [kind |-> kind, num |-> num, detail |-> detail]]

\* the reason texts; "HTTP {code}" and "File too small: {size} bytes" carry
\* their number in reason.num, "Request error: {detail}" its detail
ReasonHTTP == "HTTP"
ReasonHTML == "Landing page/HTML response detected (non-direct file URL)"
ReasonNotRar == "Target is not recognized as RAR file"
ReasonTooSmall == "File too small"
ReasonOK == "OK"
ReasonInvalidUrl == "Invalid URL format"
ReasonTimeout == "Timeout"
ReasonRequestError == "Request error"

\* headers.get(name, default) on a header map whose fields are optional texts
HeaderGet(headers, name, default) ==
    IF headers[name] = None THEN default ELSE headers[name][1]

\* mutant: "or" for "and"
_is_valid_url_either(url) ==
    LET parsed == urlparse(url)
    IN  parsed.scheme /= <<>> \/ parsed.netloc /= <<>>

_is_valid_url(url) ==
    LET parsed == urlparse(url)
    IN  parsed.scheme /= <<>> /\ parsed.netloc /= <<>>

\* mutant: Content-Range consulted before Content-Length
_extract_size_from_headers_range_first(headers) ==
    LET content_range == HeaderGet(headers, "content_range", <<>>)
    IN  IF Positions(content_range, "/") /= {}
        THEN LET v == ParseInt(RSplitLast(content_range, "/"))
             IN  IF v = None THEN 0 ELSE v[1]
        ELSE IF headers.content_length /= None
        THEN LET v == ParseInt(headers.content_length[1])
             IN  IF v = None THEN 0 ELSE v[1]
        ELSE 0

\* lines 47-64
_extract_size_from_headers(headers) ==
    IF headers.content_length /= None
    THEN LET v == ParseInt(headers.content_length[1])
         IN  IF v = None THEN 0 ELSE v[1]
    ELSE LET content_range == HeaderGet(headers, "content_range", <<>>)
         IN  IF Positions(content_range, "/") /= {}
             THEN LET v == ParseInt(RSplitLast(content_range, "/"))
                  IN  IF v = None THEN 0 ELSE v[1]
             ELSE 0

\* mutant: .lower() forgotten
_extract_content_type_cased(headers) ==
    Strip(SplitFirst(HeaderGet(headers, "content_type", <<>>), ";"), White)

_extract_content_type(headers) ==
    Lower(Strip(SplitFirst(HeaderGet(headers, "content_type", <<>>), ";"), White))

\* the longest run of atoms of s from position i on that are not in stop
RECURSIVE RunFrom(_, _, _)
RunFrom(s, i, stop) ==
    IF i > Len(s) \/ s[i] \in stop THEN <<>> ELSE <<s[i]>> \o RunFrom(s, i + 1, stop)

\* re.search(r"filename\*=UTF-8''([^;]+)", text, IGNORECASE): group 1 of the
\* leftmost match, <<>> when there is none
Utf8FilenameMatch(d) ==
    LET hits == {i \in 1..Len(d) : LowerAtom(d[i]) = "filename*=utf-8''"
                                   /\ RunFrom(d, i + 1, {";"}) /= <<>>}
    IN  IF hits = {} THEN None ELSE Some(RunFrom(d, Min(hits) + 1, {";"}))

\* re.search(r'filename="?([^";]+)"?', text, IGNORECASE): group 1 of the
\* leftmost match, <<>> when there is none
SimpleFilenameGroup(d, i) ==
    LET quoted == i + 1 <= Len(d) /\ d[i + 1] = "\""
        afterQuote == IF quoted THEN RunFrom(d, i + 2, {"\"", ";"}) ELSE <<>>
    IN  IF afterQuote /= <<>> THEN afterQuote ELSE RunFrom(d, i + 1, {"\"", ";"})

SimpleFilenameMatch(d) ==
    LET hits == {i \in 1..Len(d) : LowerAtom(d[i]) = "filename="
                                   /\ SimpleFilenameGroup(d, i) /= <<>>}
    IN  IF hits = {} THEN None ELSE Some(SimpleFilenameGroup(d, Min(hits)))

_extract_filename_from_content_disposition(headers) ==
    LET disposition == HeaderGet(headers, "content_disposition", <<>>)
        utf8_match == Utf8FilenameMatch(disposition)
        simple_match == SimpleFilenameMatch(disposition)
    IN  IF disposition = <<>> THEN <<>>
        ELSE IF utf8_match /= None THEN Lower(Strip(utf8_match[1], {"\"", " "}))
        ELSE IF simple_match /= None THEN Lower(Strip(simple_match[1], White))
        ELSE <<>>

RarContentTypes == {<<"application/x-rar-compressed">>, <<"application/vnd.rar">>}

_looks_like_rar_target(url, headers) ==
    LET parsed == urlparse(url)
        path_name == Lower(RSplitLast(parsed.path, "/"))
        fragment_name == Lower(RSplitLast(parsed.fragment, "/"))
        disposition_name == _extract_filename_from_content_disposition(headers)
        content_type == _extract_content_type(headers)
        filename_hints == {path_name, fragment_name, disposition_name}
    IN  IF \E name \in filename_hints : name /= <<>> /\ EndsWithRar(name)
        THEN TRUE
        ELSE content_type \in RarContentTypes

\* mutant: the HTML check put before the status check
_validate_response_html_first(cfg, url, status_code, size_bytes, headers) ==
    LET content_type == _extract_content_type(headers)
    IN  IF cfg.reject_html_content /\ content_type /= <<>> /\ content_type[1] = "text/html"
        THEN ValidationResult(FALSE, Some(status_code), size_bytes, ReasonHTML, 0, "")
        ELSE IF status_code /= 200 /\ status_code /= 206
        THEN ValidationResult(FALSE, Some(status_code), 0, ReasonHTTP, status_code, "")
        ELSE IF cfg.require_rar_extension /\ ~_looks_like_rar_target(url, headers)
        THEN ValidationResult(FALSE, Some(status_code), size_bytes, ReasonNotRar, 0, "")
        ELSE IF size_bytes < cfg.min_size_bytes
        THEN ValidationResult(FALSE, Some(status_code), size_bytes, ReasonTooSmall, size_bytes, "")
        ELSE ValidationResult(TRUE, Some(status_code), size_bytes, ReasonOK, 0, "")

\* mutant: the size check put before the RAR check
_validate_response_size_first(cfg, url, status_code, size_bytes, headers) ==
    LET content_type == _extract_content_type(headers)
    IN  IF status_code /= 200 /\ status_code /= 206
        THEN ValidationResult(FALSE, Some(status_code), 0, ReasonHTTP, status_code, "")
        ELSE IF cfg.reject_html_content /\ content_type /= <<>> /\ content_type[1] = "text/html"
        THEN ValidationResult(FALSE, Some(status_code), size_bytes, ReasonHTML, 0, "")
        ELSE IF size_bytes < cfg.min_size_bytes
        THEN ValidationResult(FALSE, Some(status_code), size_bytes, ReasonTooSmall, size_bytes, "")
        ELSE IF cfg.require_rar_extension /\ ~_looks_like_rar_target(url, headers)
        THEN ValidationResult(FALSE, Some(status_code), size_bytes, ReasonNotRar, 0, "")
        ELSE ValidationResult(TRUE, Some(status_code), size_bytes, ReasonOK, 0, "")

_validate_response(cfg, url, status_code, size_bytes, headers) ==
    LET content_type == _extract_content_type(headers)
    IN  IF status_code /= 200 /\ status_code /= 206
        THEN ValidationResult(FALSE, Some(status_code), 0, ReasonHTTP, status_code, "")
        ELSE IF cfg.reject_html_content /\ content_type /= <<>> /\ content_type[1] = "text/html"
        THEN ValidationResult(FALSE, Some(status_code), size_bytes, ReasonHTML, 0, "")
        ELSE IF cfg.require_rar_extension /\ ~_looks_like_rar_target(url, headers)
        THEN ValidationResult(FALSE, Some(status_code), size_bytes, ReasonNotRar, 0, "")
        ELSE IF size_bytes < cfg.min_size_bytes
        THEN ValidationResult(FALSE, Some(status_code), size_bytes, ReasonTooSmall, size_bytes, "")
        ELSE ValidationResult(TRUE, Some(status_code), size_bytes, ReasonOK, 0, "")

----------------------------------------------------------------------------
(* The network: what one session.head / session.get call can do *)

NoHeaders == [content_length |-> None, content_range |-> None,
              content_type |-> None, content_disposition |-> None]

Response(status, headers) ==
    [kind |-> "response", status_code |-> status, headers |-> headers, detail |-> ""]
Failure(kind, detail) ==
    [kind |-> kind, status_code |-> 0, headers |-> NoHeaders, detail |-> detail]

\* requests.Timeout, another requests.RequestException, any other exception
Failures == {Failure("timeout", ""), Failure("error", "connection refused"),
             Failure("error", "too many redirects"), Failure("exception", "")}

Statuses == {200, 206, 404}
ContentLengths == {None, Some(<<"0">>), Some(<<"1">>), Some(<<"5">>), Some(<<"x">>),
                   Some(<<"-", "1">>), Some(<<" ", "7">>)}
ContentRanges == {None, Some(<<"bytes 0-0", "/", "1">>), Some(<<"bytes 0-0", "/", "7">>),
                  Some(<<"bytes 0-0", "/", "*">>), Some(<<"bytes">>)}
ContentTypes == {None, Some(<<"text/html", ";", " ", "charset=utf-8">>),
                 Some(<<" ", "TEXT/HTML">>), Some(<<"text/html", "-sandboxed">>),
                 Some(<<"application/octet-stream">>),
                 Some(<<"APPLICATION/VND.RAR", ";", "x">>),
                 Some(<<"application/x-rar-compressed">>)}
ContentDispositions ==
    {None, Some(<<"attachment">>),
     Some(<<"attachment", ";", " ", "filename=", "\"", "a", ".rar", "\"">>),
     Some(<<"attachment", ";", " ", "FILENAME=", "a", ".txt">>),
     Some(<<"filename=", "\"", "\"", ";", "filename=", "b", ".RAR", " ">>),
     Some(<<"filename=", "a", ".txt", ";", "filename*=UTF-8''", "\"", "c", ".rar", "\"">>)}

HeaderMaps(cls, crs, cts, cds) ==
    [content_length : cls, content_range : crs, content_type : cts, content_disposition : cds]

\* every response, for the classification on its own
AllResponses ==
    {Response(s, h) : s \in Statuses,
                      h \in HeaderMaps(ContentLengths, ContentRanges, ContentTypes,
                                       ContentDispositions)}

\* the responses one validate() call is run against
ProbeResponses ==
    {Response(200, h) :
        h \in HeaderMaps({None, Some(<<"0">>), Some(<<"1">>), Some(<<"5">>)},
                         {None, Some(<<"bytes 0-0", "/", "7">>)},
                         {Some(<<"application/octet-stream">>)}, {None})}
    \cup {Response(200, h) :
        h \in HeaderMaps({None, Some(<<"5">>)}, {None},
                         {Some(<<"text/html", ";", " ", "charset=utf-8">>)}, {None})}
    \cup {Response(404, h) :
        h \in HeaderMaps({None, Some(<<"5">>)}, {None},
                         {Some(<<"application/octet-stream">>)}, {None})}

\* the responses a whole generation run is run against
GenResponses ==
    {Response(200, [NoHeaders EXCEPT !.content_length = Some(<<"5">>)]),
     Response(200, NoHeaders),
     Response(206, [NoHeaders EXCEPT !.content_range = Some(<<"bytes 0-0", "/", "7">>)]),
     Response(200, [NoHeaders EXCEPT !.content_length = Some(<<"5">>),
                                     !.content_type = Some(<<" ", "TEXT/HTML">>)]),
     Response(404, NoHeaders)}

\* the responses and failures an input-list run is run against
InputResponses ==
    {Response(200, [NoHeaders EXCEPT !.content_length = Some(<<"5">>)]),
     Response(200, [NoHeaders EXCEPT !.content_length = Some(<<"2">>)]),
     Response(200, NoHeaders),
     Response(404, NoHeaders)}

InputFailures == {Failure("timeout", ""), Failure("exception", "")}

\* the responses the size extraction is run against: every Content-Length and
\* Content-Range of the tables above under every status
SizeResponses ==
    {Response(s, h) : s \in Statuses,
                      h \in HeaderMaps(ContentLengths, ContentRanges,
                                       {Some(<<"application/octet-stream">>)}, {None})}

Outcomes ==
    IF scope = "input" THEN InputFailures \cup InputResponses
    ELSE IF scope = "extract" THEN SizeResponses
    ELSE Failures \cup (IF scope = "generate" THEN GenResponses ELSE ProbeResponses)

----------------------------------------------------------------------------
(* What requests.get of the resolver and the browser session can do *)

Page(url, content_type, text) ==
    [kind |-> "response", url |-> url, content_type |-> content_type, text |-> text,
     detail |-> ""]
PageFailure(kind, detail) ==
    [kind |-> kind, url |-> <<>>, content_type |-> None, text |-> <<>>, detail |-> detail]

\* response.url: the URL after redirects
FinalUrls == {<<"https://", "host", "/", "page">>, <<"https://", "cdn", "/", "a", "/", "b">>}

PageContentTypes ==
    {None, Some(<<"text/html", ";", " ", "charset=utf-8">>), Some(<<" ", "TEXT/HTML">>),
     Some(<<"application/octet-stream">>)}

HtmlBodies ==
    {<<>>,
     <<"window.open(", "\"", "https://", "host", "/", "dl", "/", "TOKEN", "\"", ")">>,
     <<"WINDOW.OPEN(", " ", "'", "/", "dl", "/", "t", "'", ")">>,
     <<"window.open(", "\"", "javascript:", "void(0)", "\"", ")",
       "<a ", "href", "=", "\"", "/", "dl", "/", "x", "\"", ">">>,
     <<"<a ", "HREF", " ", "=", " ", "'", "https://", "cdn", "/", "dl", "/", "y", "'", ">">>,
     <<"<a ", "href", "=", "\"", "/", "files", "/", "x", "\"", ">">>,
     <<"window.open(", "\"", "mailto:", "x", "\"", ")",
       "<a ", "href", "=", "\"", "ftp://", "host", "/", "dl", "/", "z", "\"", ">">>,
     <<"<a ", "href", "=", "\"", "https://", "host", "/", "dl", "/", "B", "\"", ">",
       "window.open(", "\"", "https://", "host", "/", "dl", "/", "A", "\"", ")">>,
     <<"window.open(", "\"", "javascript:", "x", "\"", ")",
       "window.open(", "'", "t", "'", ")">>,
     <<"window.open(", "\"", "\"", ")", "<a ", "href", "=", "'", "https://", "dl", "/", "x", "'">>}

\* the page fetches one resolve call is run against
ResolvePages ==
    {Page(u, ct, b) : u \in FinalUrls, ct \in PageContentTypes, b \in HtmlBodies}
    \cup {PageFailure("timeout", ""), PageFailure("error", "connection refused"),
          PageFailure("exception", "")}

\* the page fetches an input-list run is run against
InputPages ==
    {Page(<<"https://", "host", "/", "page">>, Some(<<"application/octet-stream">>), <<>>),
     Page(<<"https://", "host", "/", "page">>, Some(<<"text/html", ";", " ", "charset=utf-8">>),
          <<"window.open(", "\"", "https://", "host", "/", "dl", "/", "TOKEN", "\"", ")">>),
     Page(<<"https://", "host", "/", "page">>, Some(<<"text/html", ";", " ", "charset=utf-8">>),
          <<>>),
     PageFailure("error", "connection refused"),
     PageFailure("exception", "")}

PageOutcomes == IF scope = "input" THEN InputPages ELSE ResolvePages

Browser(kind, new_window, current, detail) ==
    [kind |-> kind, new_window |-> new_window, current |-> current, detail |-> detail]

\* the import succeeds or raises ImportError
ImportOutcomes == {Browser("ok", None, <<>>, ""), Browser("ImportError", None, <<>>, "")}

\* a browser call returns, raises TimeoutException or WebDriverException, or
\* raises something else
DriverOutcomes ==
    {Browser("ok", None, <<>>, ""), Browser("error", None, <<>>, "chrome not reachable")}
    \cup (IF scope = "input" THEN {}
          ELSE {Browser("error", None, <<>>, "timeout"), Browser("exception", None, <<>>, "")})

\* driver.current_url
BrowserUrls ==
    {<<"about:", "blank">>, <<"https://", "host", "/", "page">>,
     <<"https://", "host", "/", "dl", "/", "w">>}

\* one pass of the polling loop: the deadline has passed, or the window
\* handles and the current URL are read, or a browser call raises
PollOutcomes ==
    IF scope = "input"
    THEN {Browser("deadline", None, <<>>, ""),
          Browser("tick", Some(<<"https://", "host", "/", "dl", "/", "w">>),
                  <<"https://", "host", "/", "dl", "/", "w">>, "")}
    ELSE {Browser("deadline", None, <<>>, ""),
          Browser("error", None, <<>>, "chrome not reachable"),
          Browser("exception", None, <<>>, "")}
         \cup {Browser("tick", n, c, "") :
                  n \in {None} \cup {Some(u) : u \in BrowserUrls}, c \in BrowserUrls}

----------------------------------------------------------------------------
(* URLValidator.validate, as a function of the validator's state *)

V == [vpc |-> vpc, vurl |-> vurl, attempt |-> attempt, result |-> result,
      netlog |-> netlog, headResp |-> headResp, getResp |-> getResp]

SetVal(v) ==
    /\ vpc' = v.vpc
    /\ vurl' = v.vurl
    /\ attempt' = v.attempt
    /\ result' = v.result
    /\ netlog' = v.netlog
    /\ headResp' = v.headResp
    /\ getResp' = v.getResp

Event(req, kind, num, detail) == [req |-> req, kind |-> kind, num |-> num, detail |-> detail]

\* return <result>
Returns(v, res) == [v EXCEPT !.vpc = "returned", !.result = Some(res)]

\* an exception leaves validate()
Raises(v) == [v EXCEPT !.vpc = "raised"]

\* lines 171-177: the URL check, then the first attempt
ValidateCall(cfg, url) ==
    LET v0 == [vpc |-> "head", vurl |-> url, attempt |-> 1, result |-> None,
               netlog |-> <<>>, headResp |-> None, getResp |-> None]
        attempts == cfg.retry_count + 1
    IN  IF ~_is_valid_url(url)
        THEN Returns(v0, ValidationResult(FALSE, None, 0, ReasonInvalidUrl, 0, ""))
        ELSE IF attempts < 1
        THEN Returns(v0, ValidationResult(FALSE, None, 0, "Unknown validation failure", 0, ""))
        ELSE v0

\* mutant: gives up one attempt early
OnRequestFailure_early(cfg, v, o) ==
    LET attempts == cfg.retry_count + 1
        secs == cfg.retry_backoff_seconds * v.attempt
        terminal == IF o.kind = "timeout"
                    THEN ValidationResult(FALSE, None, 0, ReasonTimeout, 0, "")
                    ELSE ValidationResult(FALSE, None, 0, ReasonRequestError, 0, o.detail)
    IN  IF o.kind = "exception" THEN Raises(v)
        ELSE IF v.attempt >= attempts - 1 THEN Returns(v, terminal)
        ELSE [v EXCEPT !.vpc = "head", !.attempt = v.attempt + 1,
                       !.netlog = Append(v.netlog, Event("sleep", "slept", secs, "")),
                       !.headResp = None, !.getResp = None]

\* mutant: the same pause after every failed attempt
OnRequestFailure_flat(cfg, v, o) ==
    LET attempts == cfg.retry_count + 1
        secs == cfg.retry_backoff_seconds
        terminal == IF o.kind = "timeout"
                    THEN ValidationResult(FALSE, None, 0, ReasonTimeout, 0, "")
                    ELSE ValidationResult(FALSE, None, 0, ReasonRequestError, 0, o.detail)
    IN  IF o.kind = "exception" THEN Raises(v)
        ELSE IF v.attempt = attempts THEN Returns(v, terminal)
        ELSE [v EXCEPT !.vpc = "head", !.attempt = v.attempt + 1,
                       !.netlog = Append(v.netlog, Event("sleep", "slept", secs, "")),
                       !.headResp = None, !.getResp = None]

\* mutant: the last failed attempt starts the attempts over
OnRequestFailure_forever(cfg, v, o) ==
    LET attempts == cfg.retry_count + 1
        secs == cfg.retry_backoff_seconds * v.attempt
    IN  IF o.kind = "exception" THEN Raises(v)
        ELSE IF v.attempt = attempts
        THEN [v EXCEPT !.vpc = "head", !.attempt = 1, !.netlog = <<>>,
                       !.headResp = None, !.getResp = None]
        ELSE [v EXCEPT !.vpc = "head", !.attempt = v.attempt + 1,
                       !.netlog = Append(v.netlog, Event("sleep", "slept", secs, "")),
                       !.headResp = None, !.getResp = None]

\* lines 180-188: the except clauses of the retry loop; v has the failed
\* request logged
OnRequestFailure(cfg, v, o) ==
    LET attempts == cfg.retry_count + 1
        secs == cfg.retry_backoff_seconds * v.attempt
        terminal == IF o.kind = "timeout"
                    THEN ValidationResult(FALSE, None, 0, ReasonTimeout, 0, "")
                    ELSE ValidationResult(FALSE, None, 0, ReasonRequestError, 0, o.detail)
    IN  IF o.kind = "exception" THEN Raises(v)
        ELSE IF v.attempt = attempts THEN Returns(v, terminal)
        ELSE [v EXCEPT !.vpc = "head", !.attempt = v.attempt + 1,
                       !.netlog = Append(v.netlog, Event("sleep", "slept", secs, "")),
                       !.headResp = None, !.getResp = None]

\* mutant: the head_fallback_get option ignored
RequestHead_always_fallback(cfg, v, o) ==
    LET size_bytes == _extract_size_from_headers(o.headers)
        logged == [v EXCEPT !.netlog = Append(v.netlog,
                       Event("HEAD", o.kind, IF o.kind = "response" THEN size_bytes ELSE 0,
                             o.detail))]
    IN  IF o.kind /= "response" THEN OnRequestFailure(cfg, logged, o)
        ELSE IF size_bytes = 0
        THEN [logged EXCEPT !.vpc = "get", !.headResp = Some(o)]
        ELSE Returns([logged EXCEPT !.headResp = Some(o)],
                     _validate_response(cfg, v.vurl, o.status_code, size_bytes, o.headers))

\* mutant: a response with an error status is retried like a failed request
RequestHead_retries_http_error(cfg, v, o) ==
    LET size_bytes == _extract_size_from_headers(o.headers)
        logged == [v EXCEPT !.netlog = Append(v.netlog,
                       Event("HEAD", o.kind, IF o.kind = "response" THEN size_bytes ELSE 0,
                             o.detail))]
    IN  IF o.kind /= "response" THEN OnRequestFailure(cfg, logged, o)
        ELSE IF cfg.head_fallback_get /\ size_bytes = 0
        THEN [logged EXCEPT !.vpc = "get", !.headResp = Some(o)]
        ELSE IF o.status_code \notin {200, 206}
        THEN OnRequestFailure(cfg, logged, Failure("error", "HTTP error"))
        ELSE Returns([logged EXCEPT !.headResp = Some(o)],
                     _validate_response(cfg, v.vurl, o.status_code, size_bytes, o.headers))

\* lines 143-155: _request_head once session.head has answered with o
RequestHead(cfg, v, o) ==
    LET size_bytes == _extract_size_from_headers(o.headers)
        logged == [v EXCEPT !.netlog = Append(v.netlog,
                       Event("HEAD", o.kind, IF o.kind = "response" THEN size_bytes ELSE 0,
                             o.detail))]
    IN  IF o.kind /= "response" THEN OnRequestFailure(cfg, logged, o)
        ELSE IF cfg.head_fallback_get /\ size_bytes = 0
        THEN [logged EXCEPT !.vpc = "get", !.headResp = Some(o)]
        ELSE Returns([logged EXCEPT !.headResp = Some(o)],
                     _validate_response(cfg, v.vurl, o.status_code, size_bytes, o.headers))

\* mutant: a size of one byte is kept
RequestGetFallback_keeps_one(cfg, v, o) ==
    LET raw == _extract_size_from_headers(o.headers)
        logged == [v EXCEPT !.netlog = Append(v.netlog,
                       Event("GET", o.kind, IF o.kind = "response" THEN raw ELSE 0, o.detail))]
    IN  IF o.kind /= "response" THEN OnRequestFailure(cfg, logged, o)
        ELSE Returns([logged EXCEPT !.getResp = Some(o)],
                     _validate_response(cfg, v.vurl, o.status_code, raw, o.headers))

\* mutant: the fallback response classified under the status of the HEAD response
RequestGetFallback_head_status(cfg, v, o) ==
    LET raw == _extract_size_from_headers(o.headers)
        size_bytes == IF raw <= 1 THEN 0 ELSE raw
        logged == [v EXCEPT !.netlog = Append(v.netlog,
                       Event("GET", o.kind, IF o.kind = "response" THEN raw ELSE 0, o.detail))]
    IN  IF o.kind /= "response" THEN OnRequestFailure(cfg, logged, o)
        ELSE Returns([logged EXCEPT !.getResp = Some(o)],
                     _validate_response(cfg, v.vurl, v.headResp[1].status_code, size_bytes,
                                        o.headers))

\* lines 157-169: _request_get_fallback once session.get has answered with o
RequestGetFallback(cfg, v, o) ==
    LET raw == _extract_size_from_headers(o.headers)
        size_bytes == IF raw <= 1 THEN 0 ELSE raw
        logged == [v EXCEPT !.netlog = Append(v.netlog,
                       Event("GET", o.kind, IF o.kind = "response" THEN raw ELSE 0, o.detail))]
    IN  IF o.kind /= "response" THEN OnRequestFailure(cfg, logged, o)
        ELSE Returns([logged EXCEPT !.getResp = Some(o)],
                     _validate_response(cfg, v.vurl, o.status_code, size_bytes, o.headers))

----------------------------------------------------------------------------
(* url_generator.py *)

FilePart(idx, url, filename, size_bytes) ==
    [index |-> idx, url |-> url, filename |-> filename, size_bytes |-> size_bytes]

GenerationReport(ps, examined_count, reason, stopIdx) ==
    [parts |-> ps, examined_count |-> examined_count, stop_reason |-> reason,
     stop_index |-> stopIdx]

\* the stop reasons generate() sets itself, in the shape of a validation reason
StopReason(text) == [kind |-> text, num |-> 0, detail |-> ""]
Completed == StopReason("completed")
ReachedEndIndex == StopReason("reached end_index")
DuplicateUrl == StopReason("duplicate URL generated")
ReachedMaxPart == StopReason("reached max_part")

\* str.format(index=..., index_raw=..., base_url=...) on the pattern
RECURSIVE Format(_, _, _, _)
Format(pattern, padded_index, index_raw, base) ==
    IF pattern = <<>> THEN <<>>
    ELSE (CASE pattern[1] = "{index}" -> padded_index
            [] pattern[1] = "{index_raw}" -> index_raw
            [] pattern[1] = "{base_url}" -> base
            [] pattern[1] = "{{index}}" -> <<"{index}">>
            [] OTHER -> <<pattern[1]>>)
         \o Format(Tail(pattern), padded_index, index_raw, base)

_build_url(cfg, idx) ==
    LET padded_index == ZFill(Str(idx), cfg.padding)
        base == RStrip(cfg.base_url, {"/"})
        candidate == Format(cfg.filename_pattern, padded_index, Str(idx), base)
    IN  IF candidate /= <<>> /\ candidate[1] \in {"http://", "https://"}
        THEN candidate
        ELSE base \o <<"/">> \o LStrip(candidate, {"/"})

_extract_filename(url, idx) ==
    LET path == urlparse(url).path
        name == RSplitLast(RStrip(path, {"/"}), "/")
    IN  IF name /= <<>> THEN name ELSE <<"part_">> \o Str(idx)

G == [gpc |-> gpc, index |-> index, examined |-> examined, parts |-> parts,
      seen_urls |-> seen_urls, stop_reason |-> stop_reason, stop_index |-> stop_index,
      report |-> report, probes |-> probes, resolves |-> resolves]

SetGen(g) ==
    /\ gpc' = g.gpc
    /\ index' = g.index
    /\ examined' = g.examined
    /\ parts' = g.parts
    /\ seen_urls' = g.seen_urls
    /\ stop_reason' = g.stop_reason
    /\ stop_index' = g.stop_index
    /\ report' = g.report
    /\ probes' = g.probes
    /\ resolves' = g.resolves

\* mutant: "<=" for "<"
CapReached_off_by_one(cfg, g) == ~(g.examined <= cfg.max_part)

\* line 60: the loop test fails
CapReached(cfg, g) == ~(g.examined < cfg.max_part)

\* mutant: the cap keeps the initial reason
Finish_keeps_completed(cfg, g) ==
    [g EXCEPT !.gpc = "returned",
              !.report = Some(GenerationReport(g.parts, g.examined, g.stop_reason,
                                               g.stop_index))]

\* mutant: ">=" for ">"
EndReached_inclusive(cfg, idx) == cfg.end_index /= None /\ idx >= cfg.end_index[1]

\* line 61: the end_index test
EndReached(cfg, idx) == cfg.end_index /= None /\ idx > cfg.end_index[1]

\* mutant: the cap reports the last examined index
Finish_last_examined(cfg, g) ==
    LET capped == g.examined >= cfg.max_part /\ g.stop_reason = Completed
        reason == IF capped THEN ReachedMaxPart ELSE g.stop_reason
        stopIdx == IF capped THEN Some(g.index - 1) ELSE g.stop_index
    IN  [g EXCEPT !.gpc = "returned", !.stop_reason = reason, !.stop_index = stopIdx,
                  !.report = Some(GenerationReport(g.parts, g.examined, reason, stopIdx))]

\* lines 93-102: after the loop
Finish(cfg, g) ==
    LET capped == g.examined >= cfg.max_part /\ g.stop_reason = Completed
        reason == IF capped THEN ReachedMaxPart ELSE g.stop_reason
        stopIdx == IF capped THEN Some(g.index) ELSE g.stop_index
    IN  [g EXCEPT !.gpc = "returned", !.stop_reason = reason, !.stop_index = stopIdx,
                  !.report = Some(GenerationReport(g.parts, g.examined, reason, stopIdx))]

\* mutant: the duplicate stops the loop without a stop index
OnDuplicate_no_index(cfg, g) ==
    Finish(cfg, [g EXCEPT !.stop_reason = DuplicateUrl])

\* lines 68-71: the URL is in seen_urls
OnDuplicate(cfg, g) ==
    Finish(cfg, [g EXCEPT !.stop_reason = DuplicateUrl, !.stop_index = Some(g.index)])

\* mutant: the part is appended after the index has advanced
AfterValidate_part_after_advance(cfg, g, url, res) ==
    LET probed == [g EXCEPT !.probes = Append(g.probes,
                       [index |-> g.index, url |-> url, result |-> res])]
    IN  IF ~res.is_valid
        THEN Finish(cfg, [probed EXCEPT !.stop_reason = res.reason,
                                         !.stop_index = Some(g.index)])
        ELSE [probed EXCEPT !.gpc = "loop",
                            !.parts = Append(g.parts,
                                FilePart(g.index + 1, url, _extract_filename(url, g.index + 1),
                                         res.size_bytes)),
                            !.index = g.index + 1]

\* mutant: an invalid part is skipped and the loop goes on
AfterValidate_skips_invalid(cfg, g, url, res) ==
    LET probed == [g EXCEPT !.probes = Append(g.probes,
                       [index |-> g.index, url |-> url, result |-> res])]
    IN  IF ~res.is_valid
        THEN [probed EXCEPT !.gpc = "loop", !.index = g.index + 1]
        ELSE [probed EXCEPT !.gpc = "loop",
                            !.parts = Append(g.parts,
                                FilePart(g.index, url, _extract_filename(url, g.index),
                                         res.size_bytes)),
                            !.index = g.index + 1]

\* mutant: the index advances by two
AfterValidate_by_two(cfg, g, url, res) ==
    LET probed == [g EXCEPT !.probes = Append(g.probes,
                       [index |-> g.index, url |-> url, result |-> res])]
    IN  IF ~res.is_valid
        THEN Finish(cfg, [probed EXCEPT !.stop_reason = res.reason,
                                         !.stop_index = Some(g.index)])
        ELSE [probed EXCEPT !.gpc = "loop",
                            !.parts = Append(g.parts,
                                FilePart(g.index, url, _extract_filename(url, g.index),
                                         res.size_bytes)),
                            !.index = g.index + 2]

\* lines 74-91: validate(url) has returned res
AfterValidate(cfg, g, url, res) ==
    LET probed == [g EXCEPT !.probes = Append(g.probes,
                       [index |-> g.index, url |-> url, result |-> res])]
    IN  IF ~res.is_valid
        THEN Finish(cfg, [probed EXCEPT !.stop_reason = res.reason,
                                         !.stop_index = Some(g.index)])
        ELSE [probed EXCEPT !.gpc = "loop",
                            !.parts = Append(g.parts,
                                FilePart(g.index, url, _extract_filename(url, g.index),
                                         res.size_bytes)),
                            !.index = g.index + 1]

\* an exception of validate() leaves generate()
GenRaises(g) == [g EXCEPT !.gpc = "raised"]

\* what the caller of validate() does once validate() is in state v
Caller(cfg, g, v) ==
    IF v.vpc = "returned" THEN AfterValidate(cfg, g, v.vurl, v.result[1])
    ELSE IF v.vpc = "raised" THEN GenRaises(g)
    ELSE [g EXCEPT !.gpc = "validating"]

----------------------------------------------------------------------------
(* download_link_resolver.py *)

ResolveResult(resolved_url, was_resolved, kind, sub, detail) ==
    [resolved_url |-> resolved_url, was_resolved |-> was_resolved,
     reason |-> [kind |-> kind, sub |-> sub, detail |-> detail]]

\* the reason texts; "resolver request error: {exc}", "selenium fallback error:
\* {exc}" and "download button link not found; {reason}" carry the rest in the
\* fields sub and detail
ReasonDisabled == "resolver disabled"
ReasonDirect == "already direct"
ReasonFetchError == "resolver request error"
ReasonNotHtml == "not an HTML landing page"
ReasonWindowOpen == "resolved via window.open"
ReasonHref == "resolved via href /dl/"
ReasonNotFound == "download button link not found"
ReasonNoSelenium == "selenium not installed"
ReasonClick == "resolved via selenium click"
ReasonSameTab == "resolved via selenium same-tab"
ReasonNoLink == "selenium click did not produce direct link"
ReasonSeleniumError == "selenium fallback error"

Quotes == {"\"", "'"}
Space == {" ", "\n"}

\* the atom ends with the character "/"
EndsInSlash(a) == a \in {"/", "http://", "https://", "ftp://"}

\* "/dl/" in text
ContainsDl(s) ==
    \E i \in 1..(Len(s) - 2) : EndsInSlash(s[i]) /\ s[i + 1] = "dl" /\ s[i + 2] = "/"

\* the first position from i on whose atom is not white space
RECURSIVE SkipSpace(_, _)
SkipSpace(s, i) == IF i <= Len(s) /\ s[i] \in Space THEN SkipSpace(s, i + 1) ELSE i

\* ['"]([^'"]+)['"] matched at position q: the position of the closing quote, 0
\* when there is no match
QuotedEnd(s, q) ==
    LET group == RunFrom(s, q + 1, Quotes)
        close == q + Len(group) + 1
    IN  IF q <= Len(s) /\ s[q] \in Quotes /\ group /= <<>> /\ close <= Len(s)
        THEN close ELSE 0

\* _WINDOW_OPEN_RE matched at position i: the position of the closing quote, 0
\* when there is no match
WindowOpenEnd(s, i) ==
    IF LowerAtom(s[i]) = "window.open(" THEN QuotedEnd(s, SkipSpace(s, i + 1)) ELSE 0

\* _HREF_DL_RE matched at position i
HrefDlEnd(s, i) ==
    LET eq == SkipSpace(s, i + 1)
        q == SkipSpace(s, eq + 1)
        close == QuotedEnd(s, q)
    IN  IF LowerAtom(s[i]) = "href" /\ eq <= Len(s) /\ s[eq] = "=" /\ close /= 0
           /\ ContainsDl(SubSeq(s, q + 1, close - 1))
        THEN close ELSE 0

\* _WINDOW_OPEN_RE.findall(html) from position i on: group 1 of every match
RECURSIVE WindowOpenFindAll(_, _)
WindowOpenFindAll(s, i) ==
    IF i > Len(s) THEN <<>>
    ELSE LET close == WindowOpenEnd(s, i)
         IN  IF close = 0 THEN WindowOpenFindAll(s, i + 1)
             ELSE <<RunFrom(s, SkipSpace(s, i + 1) + 1, Quotes)>>
                  \o WindowOpenFindAll(s, close + 1)

\* _HREF_DL_RE.findall(html) from position i on
RECURSIVE HrefDlFindAll(_, _)
HrefDlFindAll(s, i) ==
    IF i > Len(s) THEN <<>>
    ELSE LET close == HrefDlEnd(s, i)
         IN  IF close = 0 THEN HrefDlFindAll(s, i + 1)
             ELSE <<RunFrom(s, SkipSpace(s, SkipSpace(s, i + 1) + 1) + 1, Quotes)>>
                  \o HrefDlFindAll(s, close + 1)

\* urllib.parse.urljoin(base, candidate), base an absolute http(s) URL
urljoin(base, candidate) ==
    LET b == urlparse(base)
        slashes == Positions(b.path, "/")
        dir == IF slashes = {} THEN <<"/">> ELSE SubSeq(b.path, 1, Max(slashes))
    IN  IF candidate = <<>> THEN base
        ELSE IF candidate[1] \in (NetlocSchemes \cup BareSchemes) THEN candidate
        ELSE IF Len(candidate) >= 2 /\ candidate[1] = "/" /\ candidate[2] = "/"
        THEN b.scheme \o SubSeq(candidate, 3, Len(candidate))
        ELSE IF candidate[1] = "/" THEN b.scheme \o b.netloc \o candidate
        ELSE IF candidate[1] = "#" THEN b.scheme \o b.netloc \o b.path \o candidate
        ELSE b.scheme \o b.netloc \o dir \o candidate

\* mutant: any scheme with a netloc counts
_is_http_url_any_scheme(value) ==
    LET parsed == urlparse(value)
    IN  parsed.scheme /= <<>> /\ parsed.netloc /= <<>>

_is_http_url(value) ==
    LET parsed == urlparse(value)
    IN  parsed.scheme \in {<<"http://">>, <<"https://">>} /\ parsed.netloc /= <<>>

\* the first candidate of matches whose join with base is an http(s) URL,
\* <<>> when there is none
RECURSIVE FirstHttp(_, _)
FirstHttp(base, matches) ==
    IF matches = <<>> THEN None
    ELSE IF _is_http_url(urljoin(base, matches[1])) THEN Some(urljoin(base, matches[1]))
    ELSE FirstHttp(base, Tail(matches))

----------------------------------------------------------------------------
(* resolve_download_button_link, as a function of the resolver's state *)

R == [rpc |-> rpc, rurl |-> rurl, resolved |-> resolved, rlog |-> rlog,
      driver |-> driver, page |-> page]

SetRes(r) ==
    /\ rpc' = r.rpc
    /\ rurl' = r.rurl
    /\ resolved' = r.resolved
    /\ rlog' = r.rlog
    /\ driver' = r.driver
    /\ page' = r.page

\* return <result>
ResReturns(r, res) == [r EXCEPT !.rpc = "returned", !.resolved = Some(res)]

\* an exception leaves resolve_download_button_link
ResRaises(r) == [r EXCEPT !.rpc = "raised"]

Logged(r, req, o) == [r EXCEPT !.rlog = Append(r.rlog, Event(req, o.kind, 0, o.detail))]

\* mutant: the enabled option is not looked at
ResolveCall_always_enabled(cfg, url) ==
    LET r0 == [rpc |-> "fetch", rurl |-> url, resolved |-> None, rlog |-> <<>>,
               driver |-> "none", page |-> None]
    IN  IF ContainsDl(urlparse(url).path)
        THEN ResReturns(r0, ResolveResult(url, FALSE, ReasonDirect, "", ""))
        ELSE r0

\* lines 121-126: the two immediate returns, else on to the page fetch
ResolveCall(cfg, url) ==
    LET r0 == [rpc |-> "fetch", rurl |-> url, resolved |-> None, rlog |-> <<>>,
               driver |-> "none", page |-> None]
    IN  IF ~cfg.resolve_download_button_links
        THEN ResReturns(r0, ResolveResult(url, FALSE, ReasonDisabled, "", ""))
        ELSE IF ContainsDl(urlparse(url).path)
        THEN ResReturns(r0, ResolveResult(url, FALSE, ReasonDirect, "", ""))
        ELSE r0

\* mutant: the anchors are looked at before the window.open calls
PageFetched_href_first(cfg, r, o) ==
    LET logged == Logged(r, "GET", o)
        content_type == Lower(Strip(SplitFirst(IF o.content_type = None THEN <<>>
                                               ELSE o.content_type[1], ";"), White))
        open_url == FirstHttp(o.url, WindowOpenFindAll(o.text, 1))
        href_url == FirstHttp(o.url, HrefDlFindAll(o.text, 1))
        fetched == [logged EXCEPT !.page = Some(o)]
    IN  IF o.kind = "exception" THEN ResRaises(logged)
        ELSE IF o.kind /= "response"
        THEN ResReturns(logged, ResolveResult(r.rurl, FALSE, ReasonFetchError, "", o.detail))
        ELSE IF ~(content_type /= <<>> /\ content_type[1] = "text/html")
        THEN ResReturns(fetched, ResolveResult(r.rurl, FALSE, ReasonNotHtml, "", ""))
        ELSE IF href_url /= None
        THEN ResReturns(fetched, ResolveResult(href_url[1], TRUE, ReasonHref, "", ""))
        ELSE IF open_url /= None
        THEN ResReturns(fetched, ResolveResult(open_url[1], TRUE, ReasonWindowOpen, "", ""))
        ELSE IF cfg.selenium_fallback_enabled
        THEN [fetched EXCEPT !.rpc = "import"]
        ELSE ResReturns(fetched, ResolveResult(r.rurl, FALSE, ReasonNotFound, "", ""))

\* lines 128-170: requests.get has answered with o
PageFetched(cfg, r, o) ==
    LET logged == Logged(r, "GET", o)
        content_type == Lower(Strip(SplitFirst(IF o.content_type = None THEN <<>>
                                               ELSE o.content_type[1], ";"), White))
        open_url == FirstHttp(o.url, WindowOpenFindAll(o.text, 1))
        href_url == FirstHttp(o.url, HrefDlFindAll(o.text, 1))
        fetched == [logged EXCEPT !.page = Some(o)]
    IN  IF o.kind = "exception" THEN ResRaises(logged)
        ELSE IF o.kind /= "response"
        THEN ResReturns(logged, ResolveResult(r.rurl, FALSE, ReasonFetchError, "", o.detail))
        ELSE IF ~(content_type /= <<>> /\ content_type[1] = "text/html")
        THEN ResReturns(fetched, ResolveResult(r.rurl, FALSE, ReasonNotHtml, "", ""))
        ELSE IF open_url /= None
        THEN ResReturns(fetched, ResolveResult(open_url[1], TRUE, ReasonWindowOpen, "", ""))
        ELSE IF href_url /= None
        THEN ResReturns(fetched, ResolveResult(href_url[1], TRUE, ReasonHref, "", ""))
        ELSE IF cfg.selenium_fallback_enabled
        THEN [fetched EXCEPT !.rpc = "import"]
        ELSE ResReturns(fetched, ResolveResult(r.rurl, FALSE, ReasonNotFound, "", ""))

\* lines 157-168: _resolve_with_selenium_click has returned sel
SeleniumReturns(r, sel) ==
    IF sel.was_resolved THEN ResReturns(r, sel)
    ELSE ResReturns(r, ResolveResult(r.rurl, FALSE, ReasonNotFound, sel.reason.kind,
                                     sel.reason.detail))

\* lines 108-110: the finally clause; driver.quit() of webdriver.Chrome ends the
\* session and the driver process
Quit(r) ==
    IF r.driver = "open"
    THEN [r EXCEPT !.driver = "quit", !.rlog = Append(r.rlog, Event("quit", "ok", 0, ""))]
    ELSE r

\* mutant: the except clause without the finally clause
SeleniumFails_no_quit(r, o) ==
    IF o.kind = "error"
    THEN SeleniumReturns(r, ResolveResult(r.rurl, FALSE, ReasonSeleniumError, "", o.detail))
    ELSE ResRaises(r)

\* lines 102-107: the except clause, then the finally clause
SeleniumFails(r, o) ==
    IF o.kind = "error"
    THEN SeleniumReturns(Quit(r), ResolveResult(r.rurl, FALSE, ReasonSeleniumError, "",
                                                o.detail))
    ELSE ResRaises(Quit(r))

\* mutant: the ImportError is not caught
SeleniumImport_raises(cfg, r, o) ==
    LET logged == Logged(r, "import", o)
    IN  IF o.kind = "ImportError" THEN ResRaises(logged)
        ELSE [logged EXCEPT !.rpc = "start"]

\* lines 32-44: the imports
SeleniumImport(cfg, r, o) ==
    LET logged == Logged(r, "import", o)
    IN  IF o.kind = "ImportError"
        THEN SeleniumReturns(logged, ResolveResult(r.rurl, FALSE, ReasonNoSelenium, "", ""))
        ELSE [logged EXCEPT !.rpc = "start"]

\* lines 46-55: webdriver.Chrome(options=options)
SeleniumStart(cfg, r, o) ==
    LET logged == Logged(r, "start", o)
    IN  IF o.kind = "ok" THEN [logged EXCEPT !.rpc = "navigate", !.driver = "open"]
        ELSE SeleniumFails(logged, o)

\* lines 56-72: load the page, wait for the download button, click it
SeleniumClick(cfg, r, o) ==
    LET logged == Logged(r, "click", o)
    IN  IF o.kind = "ok" THEN [logged EXCEPT !.rpc = "poll"]
        ELSE SeleniumFails(logged, o)

Polls(r) == Cardinality({i \in 1..Len(r.rlog) : r.rlog[i].req = "poll"})

\* lines 73-101: the loop test and one pass of the polling loop
SeleniumPoll(cfg, r, o) ==
    LET logged == Logged(r, "poll", o)
        new_http == o.new_window /= None /\ _is_http_url(o.new_window[1])
        same_tab == ContainsDl(urlparse(o.current).path) /\ _is_http_url(o.current)
    IN  IF o.kind = "deadline"
        THEN SeleniumReturns(Quit(logged), ResolveResult(r.rurl, FALSE, ReasonNoLink, "", ""))
        ELSE IF o.kind /= "tick" THEN SeleniumFails(logged, o)
        ELSE IF new_http
        THEN SeleniumReturns(Quit(logged),
                             ResolveResult(o.new_window[1], TRUE, ReasonClick, "", ""))
        ELSE IF same_tab
        THEN SeleniumReturns(Quit(logged), ResolveResult(o.current, TRUE, ReasonSameTab, "", ""))
        ELSE logged

----------------------------------------------------------------------------
(* main.py: build_report_from_input_urls *)

InputProcessed == StopReason("input_urls processed")

\* urllib.parse.unquote, atom by atom
UnquoteAtom(a) == IF a = "%2Erar" THEN ".rar" ELSE a
Unquote(s) == [i \in 1..Len(s) |-> UnquoteAtom(s[i])]

\* "." in name
HasDot(s) == \E i \in 1..Len(s) : s[i] \in {".rar", ".RAR", ".txt", "file.part"}

\* Path(text).name
PathName(s) == RSplitLast(RStrip(s, {"/"}), "/")

\* lines 96-107
_filename_from_url(url, idx) ==
    LET parsed == urlparse(url)
        fragment_name == PathName(Unquote(parsed.fragment))
        name == PathName(Unquote(parsed.path))
    IN  IF EndsWithRar(Lower(fragment_name)) THEN fragment_name
        ELSE IF name /= <<>> /\ HasDot(name) THEN name
        ELSE <<"file_">> \o Str(idx)

\* lines 158-166: after the for loop
InputFinish(cfg, g) ==
    LET stopIdx == IF g.examined > 0 THEN Some(g.examined) ELSE None
    IN  [g EXCEPT !.gpc = "returned", !.stop_reason = InputProcessed, !.stop_index = stopIdx,
                  !.report = Some(GenerationReport(g.parts, g.examined, InputProcessed,
                                                   stopIdx))]

\* lines 134-138
allow_unknown_size(res) ==
    /\ res.status_code \in {Some(200), Some(206)}
    /\ res.size_bytes = 0
    /\ res.reason.kind = ReasonTooSmall

\* mutant: every invalid result is let through as of unknown size
InputAfterValidate_allows_all(cfg, g, target_url, res) ==
    LET probed == [g EXCEPT !.probes = Append(g.probes,
                       [index |-> g.index, url |-> target_url, result |-> res])]
        size_bytes == IF ~res.is_valid THEN 0 ELSE res.size_bytes
    IN  [probed EXCEPT !.gpc = "loop",
                       !.parts = Append(g.parts,
                           FilePart(g.index, target_url,
                                    _filename_from_url(cfg.input_urls[g.index], g.index),
                                    size_bytes)),
                       !.index = g.index + 1]

\* mutant: the first invalid URL ends the loop, as in sequential mode
InputAfterValidate_stops(cfg, g, target_url, res) ==
    LET probed == [g EXCEPT !.probes = Append(g.probes,
                       [index |-> g.index, url |-> target_url, result |-> res])]
        size_bytes == IF ~res.is_valid THEN 0 ELSE res.size_bytes
    IN  IF ~res.is_valid /\ ~allow_unknown_size(res)
        THEN InputFinish(cfg, probed)
        ELSE [probed EXCEPT !.gpc = "loop",
                            !.parts = Append(g.parts,
                                FilePart(g.index, target_url,
                                         _filename_from_url(cfg.input_urls[g.index], g.index),
                                         size_bytes)),
                            !.index = g.index + 1]

\* lines 131-156: validate(target_url) has returned res
InputAfterValidate(cfg, g, target_url, res) ==
    LET probed == [g EXCEPT !.probes = Append(g.probes,
                       [index |-> g.index, url |-> target_url, result |-> res])]
        size_bytes == IF ~res.is_valid THEN 0 ELSE res.size_bytes
    IN  IF ~res.is_valid /\ ~allow_unknown_size(res)
        THEN [probed EXCEPT !.gpc = "loop", !.index = g.index + 1]
        ELSE [probed EXCEPT !.gpc = "loop",
                            !.parts = Append(g.parts,
                                FilePart(g.index, target_url,
                                         _filename_from_url(cfg.input_urls[g.index], g.index),
                                         size_bytes)),
                            !.index = g.index + 1]

\* what build_report_from_input_urls does once validate() is in state v
InputCaller(cfg, g, v) ==
    IF v.vpc = "returned" THEN InputAfterValidate(cfg, g, v.vurl, v.result[1])
    ELSE IF v.vpc = "raised" THEN GenRaises(g)
    ELSE [g EXCEPT !.gpc = "validating"]

\* mutant: the URL of the list is probed, not the resolved one
AfterResolve_probes_input(cfg, g, v, r) ==
    IF r.rpc = "returned"
    THEN LET noted == [g EXCEPT !.resolves = Append(g.resolves,
                           [index |-> g.index, url |-> r.rurl, result |-> r.resolved[1]])]
             called == ValidateCall(cfg, r.rurl)
         IN  [g |-> InputCaller(cfg, noted, called), v |-> called]
    ELSE IF r.rpc = "raised" THEN [g |-> GenRaises(g), v |-> v]
    ELSE [g |-> [g EXCEPT !.gpc = "resolving"], v |-> v]

\* lines 116-131: what build_report_from_input_urls does once the resolver is in
\* state r: the generator's and the validator's next state
AfterResolve(cfg, g, v, r) ==
    IF r.rpc = "returned"
    THEN LET noted == [g EXCEPT !.resolves = Append(g.resolves,
                           [index |-> g.index, url |-> r.rurl, result |-> r.resolved[1]])]
             called == ValidateCall(cfg, r.resolved[1].resolved_url)
         IN  [g |-> InputCaller(cfg, noted, called), v |-> called]
    ELSE IF r.rpc = "raised" THEN [g |-> GenRaises(g), v |-> v]
    ELSE [g |-> [g EXCEPT !.gpc = "resolving"], v |-> v]

----------------------------------------------------------------------------
(* idm_controller.py: the resume reconciler *)

\* token in text
Contains(text, token) ==
    \E i \in 0..(Len(text) - Len(token)) : SubSeq(text, i + 1, i + Len(token)) = token

\* "\n".join(chunks)
RECURSIVE Join(_)
Join(chunks) ==
    IF chunks = <<>> THEN <<>>
    ELSE IF Len(chunks) = 1 THEN chunks[1]
    ELSE chunks[1] \o <<"\n">> \o Join(Tail(chunks))

\* an entry of the state directory tree: a directory or a file; too_large says
\* that st_size exceeds max_file_size_bytes, read is "OSError" when stat() or
\* read_bytes() raises
StateFile(kind, too_large, read, data) ==
    [kind |-> kind, too_large |-> too_large, read |-> read, data |-> data]

StateDir(exists, is_dir, entries) ==
    [exists |-> exists, is_dir |-> is_dir, entries |-> entries]

\* mutant: the file name carried by the fragment is no token
_resume_tokens_no_fragment(url) ==
    LET parsed == urlparse(url)
        base_url == Strip(Lower(parsed.scheme \o parsed.netloc \o parsed.path), White)
        path_name == Strip(Lower(PathName(Unquote(parsed.path))), White)
    IN  {token \in {base_url, path_name} : token /= <<>>}

\* lines 47-60
_resume_tokens(url) ==
    LET parsed == urlparse(url)
        base_url == Strip(Lower(parsed.scheme \o parsed.netloc \o parsed.path), White)
        path_name == Strip(Lower(PathName(Unquote(parsed.path))), White)
        fragment_name == Strip(Lower(PathName(Unquote(parsed.fragment))), White)
    IN  {token \in {base_url, path_name, fragment_name} : token /= <<>>}

\* lines 70-84: the file is skipped
Skipped(entry) ==
    \/ entry.kind /= "file"
    \/ entry.too_large
    \/ entry.read = "OSError"
    \/ entry.data = <<>>

\* lines 62-90
_load_idm_state_blob(dir) ==
    IF ~dir.exists \/ ~dir.is_dir THEN <<>>
    ELSE LET read == SelectSeq(dir.entries, LAMBDA entry : ~Skipped(entry))
             chunks == [i \in 1..Len(read) |-> Lower(read[i].data)]
         IN  Join(chunks)

\* mutant: with no state to compare with, nothing is kept
reconcile_resume_urls_fail_closed(urls, dir) ==
    LET state_blob == _load_idm_state_blob(dir)
    IN  IF urls = {} THEN urls
        ELSE {url \in urls : \E token \in _resume_tokens(url) : Contains(state_blob, token)}

\* mutant: a token is also looked for in the other URLs of the resume set
reconcile_resume_urls_sees_resume(urls, dir) ==
    LET state_blob == _load_idm_state_blob(dir)
    IN  IF urls = {} THEN urls
        ELSE IF state_blob = <<>> THEN urls
        ELSE {url \in urls :
                \E token \in _resume_tokens(url) :
                    \/ Contains(state_blob, token)
                    \/ \E other \in urls \ {url} : Contains(Lower(other), token)}

\* lines 92-113
reconcile_resume_urls(urls, dir) ==
    LET state_blob == _load_idm_state_blob(dir)
    IN  IF urls = {} THEN urls
        ELSE IF state_blob = <<>> THEN urls
        ELSE {url \in urls : \E token \in _resume_tokens(url) : Contains(state_blob, token)}

----------------------------------------------------------------------------
(* Configurations *)

BaseUrls == {<<"https://", "host">>, <<"https://", "host", "/", "files", "/">>}

FilenamePatterns ==
    {<<"file.part", "{index}", ".rar">>,
     <<"/", "f", "{index_raw}", ".rar">>,
     <<"file.part", "{{index}}", ".rar">>,
     <<"{base_url}", "/", "p", "{index}">>,
     <<"http://", "/", "{index}", ".rar">>}

\* config_loader._validate_url_or_pattern: the placeholder test is a substring test
PatternAccepted(p) ==
    \E i \in 1..Len(p) : p[i] \in {"{index}", "{index_raw}", "{{index}}"}

ValidatorOptions(retries, backoffs, fallbacks, rars, htmls, mins) ==
    [retry_count : retries, retry_backoff_seconds : backoffs, head_fallback_get : fallbacks,
     require_rar_extension : rars, reject_html_content : htmls, min_size_bytes : mins]

Merge(a, b) == [k \in (DOMAIN a) \cup (DOMAIN b) |-> IF k \in DOMAIN a THEN a[k] ELSE b[k]]

NoGenerator == [start_index |-> 0, end_index |-> None, max_part |-> 1, padding |-> 1,
                filename_pattern |-> <<"{index}">>, base_url |-> <<"https://", "host">>]

\* config_loader._validate_config_values holds of every configuration
GenConfigs ==
    {Merge(g, o) :
        g \in {c \in [start_index : 0..MaxStart,
                      end_index : {None} \cup {Some(e) : e \in 0..(MaxStart + MaxSpan)},
                      max_part : 1..MaxPartBound,
                      padding : {1, MaxPadding},
                      filename_pattern : FilenamePatterns,
                      base_url : BaseUrls] :
                 /\ c.end_index /= None => c.end_index[1] >= c.start_index
                 /\ PatternAccepted(c.filename_pattern)
                 /\ c.padding = MaxPadding => c.base_url = <<"https://", "host">>},
        o \in ValidatorOptions(0..1, {1}, BOOLEAN, {TRUE}, {TRUE}, {3})}

ProbeConfigs ==
    {Merge(NoGenerator, o) :
        o \in ValidatorOptions(0..MaxRetry, {1, 3}, BOOLEAN, BOOLEAN, BOOLEAN, {0, 3})}

ProbeUrls ==
    {<<"https://", "host", "/", "file", ".rar">>,
     <<"https://", "host", "/", "dl", "/", "token">>,
     <<"https://", "host", "/", "x", "#", "name", ".RAR">>,
     <<"host", "/", "file", ".rar">>,
     <<"https://", "/", "file", ".rar">>,
     <<"mailto:", "file", ".rar">>,
     <<>>}

\* the options of the resolver
ResolverOptions(enableds, seleniums) ==
    {o \in [resolve_download_button_links : enableds, selenium_fallback_enabled : seleniums] :
        o.selenium_fallback_enabled => o.resolve_download_button_links}

ResolveConfigs ==
    {Merge(o, Merge(NoGenerator, v)) :
        o \in [resolve_download_button_links : BOOLEAN, selenium_fallback_enabled : BOOLEAN],
        v \in ValidatorOptions({0}, {1}, {TRUE}, {TRUE}, {TRUE}, {3})}

ResolveUrls ==
    {<<"https://", "host", "/", "page">>,
     <<"https://", "host", "/", "dl", "/", "token">>,
     <<"https://", "host", "/", "x", "#", "/", "dl", "/", "y">>,
     <<"https://", "dl", "/", "x">>,
     <<"host", "/", "dl", "/", "x">>}

InputUrls ==
    {<<"https://", "host", "/", "page">>,
     <<"https://", "host", "/", "dl", "/", "token", "#", "name", ".rar">>,
     <<"host", "/", "file", ".rar">>}

\* the lists of at most n URLs
UrlLists(n) == UNION {[1..k -> InputUrls] : k \in 0..n}

\* the configurations of a run of _generate_report: with an empty input_urls
\* the sequential mode, else the input-list mode
ReportConfigs ==
    {Merge([input_urls |-> <<>>, resolve_download_button_links |-> TRUE,
            selenium_fallback_enabled |-> FALSE], c) :
        c \in {g \in GenConfigs : /\ g.retry_count = 0 /\ g.head_fallback_get
                                  /\ g.padding = 1 /\ g.base_url = <<"https://", "host">>}}
    \cup {Merge([input_urls |-> l], Merge(o, Merge(NoGenerator, v))) :
            l \in UrlLists(MaxInputs) \ {<<>>},
            o \in ResolverOptions(BOOLEAN, {FALSE}),
            v \in ValidatorOptions({0}, {1}, {TRUE}, {FALSE}, {TRUE}, {3})}
    \cup {Merge([input_urls |-> l], Merge(o, Merge(NoGenerator, v))) :
            l \in UrlLists(1) \ {<<>>},
            o \in ResolverOptions({TRUE}, {TRUE}),
            v \in ValidatorOptions({0}, {1}, {TRUE}, {FALSE}, {TRUE}, {3})}

\* reconcile_resume_urls reads idm_state_dir only
ReconcileConfigs == {[idm_state_dir |-> <<"DwnlData">>]}

\* the URLs a resume state file holds
ResumeUrls ==
    {<<"https://", "host", "/", "dl", "/", "AAA", "#", "fileA", ".rar">>,
     <<"https://", "host", "/", "dl", "/", "BBB", "#", "fileB", ".rar">>,
     <<"https://", "HOST", "/", "files", "/", "part1", ".RAR">>,
     <<"https://", "host", "/", "x", "/", "name", "%2Erar">>,
     <<"https://", "host">>}

\* what the files of the IDM state directory hold
StateData ==
    {<<>>,
     <<"FILEA", ".RAR">>,
     <<"url=", "https://", "host", "/", "dl", "/", "BBB", "\n">>,
     <<"part1">>,
     <<"x", "name", ".rar">>,
     <<"part1", ".RAR", " ", "done">>}

StateEntries ==
    {StateFile("file", FALSE, "ok", data) : data \in StateData}
    \cup {StateFile("dir", FALSE, "ok", <<>>),
          StateFile("file", TRUE, "ok", <<"FILEA", ".RAR">>),
          StateFile("file", FALSE, "OSError", <<"FILEA", ".RAR">>)}

\* the directory is missing, is not a directory, or holds up to MaxFiles entries
StateDirs ==
    {StateDir(FALSE, FALSE, <<>>), StateDir(TRUE, FALSE, <<>>)}
    \cup {StateDir(TRUE, TRUE, entries) :
            entries \in UNION {[1..k -> StateEntries] : k \in 0..MaxFiles}}

----------------------------------------------------------------------------
(* main.py: queue_parts *)

\* the locals of queue_parts, and what it changes outside
Q == [qpc |-> qpc, qi |-> qi, queued_count |-> queued_count, skipped_count |-> skipped_count,
      updated_resume |-> updated_resume, queue_seen |-> queue_seen,
      interrupted |-> interrupted, sticky_existing_action |-> sticky_existing_action,
      idm |-> idm, prompts |-> prompts, files |-> files]

SetQueue(q) ==
    /\ qpc' = q.qpc
    /\ qi' = q.qi
    /\ queued_count' = q.queued_count
    /\ skipped_count' = q.skipped_count
    /\ updated_resume' = q.updated_resume
    /\ queue_seen' = q.queue_seen
    /\ interrupted' = q.interrupted
    /\ sticky_existing_action' = q.sticky_existing_action
    /\ idm' = q.idm
    /\ prompts' = q.prompts
    /\ files' = q.files

\* an entry of the download directory
Entry(name, kind) == [name |-> name, kind |-> kind]

\* mutant: only the resume set is looked at
_should_skip_part_resume_only(part, seen, resume) ==
    [skip |-> part.url \in resume, seen_urls |-> seen \cup {part.url}]

\* lines 203-214: the verdict, and seen_urls after the call
_should_skip_part(part, seen, resume) ==
    IF part.url \in seen THEN [skip |-> TRUE, seen_urls |-> seen]
    ELSE [skip |-> part.url \in resume, seen_urls |-> seen \cup {part.url}]

\* lines 248-273: the answer typed (or end of input); an answer that is not one
\* of s, o, k, a is asked for again
_prompt_existing_file_action(answer) ==
    CASE answer \in {"s", "EOF"} -> [action |-> "skip", sticky |-> None]
      [] answer = "o" -> [action |-> "overwrite", sticky |-> None]
      [] answer = "k" -> [action |-> "skip", sticky |-> Some("skip")]
      [] answer = "a" -> [action |-> "overwrite", sticky |-> Some("overwrite")]

\* mutant: the sticky action is not looked at
_handle_existing_local_file_no_sticky(cfg, part, dry, sticky_action, fs, answer, unlink) ==
    LET exists == \E e \in fs : e.name = part.filename
        target == CHOOSE e \in fs : e.name = part.filename
        configured_action == cfg.existing_file_action
        asked == exists /\ configured_action = "ask"
        prompt == _prompt_existing_file_action(answer)
        effective_action == IF asked THEN prompt.action ELSE configured_action
        sticky_update == IF asked THEN prompt.sticky ELSE sticky_action
        out(skip, dir) == [skip |-> skip, sticky |-> sticky_update, files |-> dir,
                           asked |-> asked]
    IN  IF ~exists
        THEN [skip |-> FALSE, sticky |-> sticky_action, files |-> fs, asked |-> FALSE]
        ELSE IF effective_action = "skip" THEN out(TRUE, fs)
        ELSE IF dry THEN out(FALSE, fs)
        ELSE IF target.kind /= "file" THEN out(TRUE, fs)
        ELSE IF unlink = "OSError" THEN out(TRUE, fs)
        ELSE out(FALSE, fs \ {target})

\* lines 276-310: the verdict, the sticky action and the download directory
\* after the call; answer is what the prompt is answered with when it is shown,
\* unlink is how target_path.unlink() ends when it is called
_handle_existing_local_file(cfg, part, dry, sticky_action, fs, answer, unlink) ==
    LET exists == \E e \in fs : e.name = part.filename
        target == CHOOSE e \in fs : e.name = part.filename
        configured_action == cfg.existing_file_action
        first_action == IF sticky_action /= None THEN sticky_action[1] ELSE configured_action
        asked == exists /\ first_action = "ask"
        prompt == _prompt_existing_file_action(answer)
        effective_action == IF asked THEN prompt.action ELSE first_action
        sticky_update == IF asked THEN prompt.sticky ELSE sticky_action
        out(skip, dir) == [skip |-> skip, sticky |-> sticky_update, files |-> dir,
                           asked |-> asked]
    IN  IF ~exists
        THEN [skip |-> FALSE, sticky |-> sticky_action, files |-> fs, asked |-> FALSE]
        ELSE IF effective_action = "skip" THEN out(TRUE, fs)
        ELSE IF dry THEN out(FALSE, fs)
        ELSE IF target.kind /= "file" THEN out(TRUE, fs)
        ELSE IF unlink = "OSError" THEN out(TRUE, fs)
        ELSE out(FALSE, fs \ {target})

\* lines 327-348 and 217-220: the loop test and one part, up to the call of
\* controller.queue_download
NextPartOf(cfg, q, ps, resume, dry, answer, unlink) ==
    IF q.qi > Len(ps) THEN [q EXCEPT !.qpc = "returned"]
    ELSE LET part == ps[q.qi]
             known == _should_skip_part(part, q.queue_seen, resume)
             seen == [q EXCEPT !.queue_seen = known.seen_urls]
             existing == _handle_existing_local_file(cfg, part, dry,
                             q.sticky_existing_action, q.files, answer, unlink)
             handled == [seen EXCEPT !.sticky_existing_action = existing.sticky,
                                     !.files = existing.files,
                                     !.prompts = IF existing.asked
                                                 THEN Append(q.prompts, answer)
                                                 ELSE q.prompts]
         IN  IF known.skip
             THEN [seen EXCEPT !.skipped_count = q.skipped_count + 1, !.qi = q.qi + 1]
             ELSE IF existing.skip
             THEN [handled EXCEPT !.skipped_count = q.skipped_count + 1, !.qi = q.qi + 1]
             ELSE IF dry
             THEN [handled EXCEPT !.queued_count = q.queued_count + 1, !.qi = q.qi + 1]
             ELSE [handled EXCEPT !.qpc = "queue"]

\* a queue_download call and how it ended
Submission(part, outcome) == [url |-> part.url, filename |-> part.filename, outcome |-> outcome]

\* mutant: the URL is noted although the submission failed
QueueDownload_notes_failure(q, ps, o) ==
    LET called == [q EXCEPT !.idm = Append(q.idm, Submission(ps[q.qi], o))]
    IN  IF o = "ok" THEN [called EXCEPT !.qpc = "submitted"]
        ELSE IF o = "FileNotFoundError" THEN [called EXCEPT !.qpc = "raised"]
        ELSE [called EXCEPT !.qpc = "loop", !.qi = q.qi + 1,
                            !.updated_resume = q.updated_resume \cup {ps[q.qi].url}]

\* mutant: any error of the download manager leaves queue_parts
QueueDownload_stops_on_error(q, ps, o) ==
    LET called == [q EXCEPT !.idm = Append(q.idm, Submission(ps[q.qi], o))]
    IN  IF o = "ok" THEN [called EXCEPT !.qpc = "submitted"]
        ELSE [called EXCEPT !.qpc = "raised"]

\* lines 222-245 and idm_controller.py lines 125-140: the IDM process has ended
\* with outcome o; FileNotFoundError is raised again, the other errors are
\* logged
QueueDownload(q, ps, o) ==
    LET called == [q EXCEPT !.idm = Append(q.idm, Submission(ps[q.qi], o))]
    IN  IF o = "ok" THEN [called EXCEPT !.qpc = "submitted"]
        ELSE IF o = "FileNotFoundError" THEN [called EXCEPT !.qpc = "raised"]
        ELSE [called EXCEPT !.qpc = "loop", !.qi = q.qi + 1]

\* lines 224-226 and 348, after queue_download has returned
RecordQueued(q, ps) ==
    [q EXCEPT !.updated_resume = q.updated_resume \cup {ps[q.qi].url},
              !.queued_count = q.queued_count + 1,
              !.qi = q.qi + 1,
              !.qpc = "loop"]

\* lines 349-353: except KeyboardInterrupt
OnKeyboardInterrupt(q) == [q EXCEPT !.interrupted = TRUE, !.qpc = "returned"]

\* queue_parts reads existing_file_action (and download_path) of the configuration
QueueConfigs == {[existing_file_action |-> a] : a \in {"ask", "skip", "overwrite"}}

QueueUrls ==
    {<<"https://", "host", "/", "dl", "/", "AAA">>, <<"https://", "host", "/", "dl", "/", "BBB">>}

\* the parts that can stand at position i of the list: two URLs, and a second
\* file name for the first URL
PartsAt(i) ==
    {FilePart(i, <<"https://", "host", "/", "dl", "/", "AAA">>, <<"a", ".rar">>, 5),
     FilePart(i, <<"https://", "host", "/", "dl", "/", "BBB">>, <<"b", ".rar">>, 5),
     FilePart(i, <<"https://", "host", "/", "dl", "/", "AAA">>, <<"b", ".rar">>, 0)}

\* the lists of 1 to n parts
PartLists(n) ==
    UNION {{ps \in [1..k -> PartsAt(1) \cup PartsAt(2) \cup PartsAt(3) \cup PartsAt(4)] :
               \A i \in 1..k : ps[i].index = i} : k \in 1..n}

\* what the download directory holds before the run
DownloadDirs ==
    {{},
     {Entry(<<"a", ".rar">>, "file")},
     {Entry(<<"a", ".rar">>, "dir")},
     {Entry(<<"a", ".rar">>, "file"), Entry(<<"b", ".rar">>, "file")}}

\* what is typed at the prompt
Answers == {"s", "o", "k", "a", "EOF"}

\* how target_path.unlink() ends
UnlinkOutcomes == {"ok", "OSError"}

\* how controller.queue_download ends
IdmOutcomes ==
    {"ok", "CalledProcessError", "TimeoutExpired", "PermissionError", "FileNotFoundError",
     "Exception"}

----------------------------------------------------------------------------
(* main.py: run, from the report on *)

\* mutant: the interrupt is not looked at
_post_queue_actions_after_interrupt(cfg, dry, queued, intr) ==
    IF ~cfg.auto_start_queue \/ dry \/ queued <= 0 THEN <<>>
    ELSE IF ~cfg.queue_only THEN <<>>
    ELSE (IF cfg.launch_idm_shortcut THEN <<"launch_via_shortcut">> ELSE <<>>)
         \o <<"start_queue">>

\* lines 178-200: the calls made on the controller, in order
_post_queue_actions(cfg, dry, queued, intr) ==
    IF intr THEN <<>>
    ELSE IF ~cfg.auto_start_queue \/ dry \/ queued <= 0 THEN <<>>
    ELSE IF ~cfg.queue_only THEN <<>>
    ELSE (IF cfg.launch_idm_shortcut THEN <<"launch_via_shortcut">> ELSE <<>>)
         \o <<"start_queue">>

\* lines 53-64: the resume state file read; a missing or unreadable file is
\* the empty set
load_resume_state(file) == file

\* a save_resume_state call and how it ended
Save(urls, outcome) == [queued_urls |-> urls, outcome |-> outcome]

\* lines 432-435: reconcile_resume_urls is called
Reconciles(cfg, dry, mode) == ~dry /\ mode /\ cfg.validate_resume_with_idm

\* mutant: the resume state is saved in a dry run as well
Saves_in_dry_run(dry, mode) == mode

\* line 455: save_resume_state is called
Saves(dry, mode) == mode /\ ~dry

\* what run reads of the configuration after the report
RunConfigs ==
    {c \in [existing_file_action : {"ask", "skip", "overwrite"},
            auto_start_queue : BOOLEAN, queue_only : BOOLEAN,
            launch_idm_shortcut : BOOLEAN, validate_resume_with_idm : BOOLEAN] :
        c.launch_idm_shortcut => (c.auto_start_queue /\ c.queue_only)}

\* the parts of a report: none, or up to MaxQueue of the two URLs
RunPartLists ==
    {<<>>} \cup {ps \in PartLists(MaxQueue) : \A i \in 1..Len(ps) : ps[i].size_bytes = 5}

\* the resume state file: missing or empty, naming the second URL, or both
ResumeFiles == {{}, {<<"https://", "host", "/", "dl", "/", "BBB">>}, QueueUrls}

\* the IDM state directory of the run: IDM knows the first URL only
RunStateDir ==
    StateDir(TRUE, TRUE,
             <<StateFile("file", FALSE, "ok",
                         <<"url=", "https://", "host", "/", "dl", "/", "AAA", "\n">>)>>)

\* how validate_idm_paths, save_resume_state and start_queue end
PathOutcomes == {"ok", "FileNotFoundError"}
SaveOutcomes == {"ok", "OSError"}
StartOutcomes == {"ok", "CalledProcessError"}

----------------------------------------------------------------------------
(* The state machine *)

\* main() has not returned, and neither reconcile_resume_urls nor queue_parts
\* has been called
\* run() itself is not part of the run
RunIdle ==
    /\ runpc = "none" /\ resume_mode = FALSE /\ resume_file = {}
    /\ saves = <<>> /\ started = <<>>

MainIdle ==
    /\ exit_code = None
    /\ resume_urls = {} /\ state_dir = <<>> /\ reconciled = <<>>
    /\ dry_run = FALSE /\ files = <<>> /\ qparts = <<>> /\ qpc = "idle" /\ qi = 0
    /\ queued_count = 0 /\ skipped_count = 0 /\ updated_resume = {} /\ queue_seen = {}
    /\ interrupted = FALSE /\ sticky_existing_action = None /\ idm = <<>>
    /\ prompts = <<>>
    /\ RunIdle

NoResp == [status_code |-> 0, size_bytes |-> 0, headers |-> NoHeaders]

\* generate() lines 53-58, on a validated configuration
Init ==
    /\ scope = "generate"
    /\ config \in GenConfigs
    /\ gpc = "loop" /\ index = config.start_index /\ examined = 0 /\ parts = <<>>
    /\ seen_urls = {} /\ stop_reason = Completed /\ stop_index = None
    /\ report = None /\ probes = <<>> /\ resolves = <<>>
    /\ vpc = "idle" /\ vurl = <<>> /\ attempt = 0 /\ result = None
    /\ netlog = <<>> /\ headResp = None /\ getResp = None
    /\ resp = NoResp
    /\ rpc = "idle" /\ rurl = <<>> /\ resolved = None /\ rlog = <<>>
    /\ driver = "none" /\ page = None
    /\ MainIdle

\* lines 60-74: one pass from the loop test to the call of validate()
GenStep ==
    /\ scope = "generate" /\ gpc = "loop"
    /\ UNCHANGED <<mainVars, scope, config, resp>>
    /\ IF CapReached(config, G)
       THEN SetGen(Finish(config, G)) /\ UNCHANGED valVars
       ELSE IF EndReached(config, index)
       THEN SetGen(Finish(config, [G EXCEPT !.stop_reason = ReachedEndIndex]))
            /\ UNCHANGED valVars
       ELSE LET url == _build_url(config, index)
                counted == [G EXCEPT !.examined = examined + 1]
            IN  IF url \in seen_urls
                THEN SetGen(OnDuplicate(config, counted)) /\ UNCHANGED valVars
                ELSE LET v == ValidateCall(config, url)
                     IN  /\ SetVal(v)
                         /\ SetGen(Caller(config,
                                [counted EXCEPT !.seen_urls = seen_urls \cup {url}], v))
    /\ UNCHANGED resVars

\* session.head answers (or fails) and validate() runs on to its next request
SessionHead ==
    /\ vpc = "head"
    /\ \E o \in Outcomes :
          LET v == RequestHead(config, V, o)
          IN  /\ SetVal(v)
              /\ IF scope = "generate" THEN SetGen(Caller(config, G, v))
                 ELSE IF scope = "input" THEN SetGen(InputCaller(config, G, v))
                 ELSE UNCHANGED genVars
    /\ UNCHANGED <<mainVars, scope, config, resp, resVars>>

\* session.get (Range: bytes=0-0) answers (or fails)
SessionGet ==
    /\ vpc = "get"
    /\ \E o \in Outcomes :
          LET v == RequestGetFallback(config, V, o)
          IN  /\ SetVal(v)
              /\ IF scope = "generate" THEN SetGen(Caller(config, G, v))
                 ELSE IF scope = "input" THEN SetGen(InputCaller(config, G, v))
                 ELSE UNCHANGED genVars
    /\ UNCHANGED <<mainVars, scope, config, resp, resVars>>

Next == GenStep \/ SessionHead \/ SessionGet

Spec == Init /\ [][Next]_vars

\* the configurations of the runs whose termination is checked: the plain
\* pattern and the one whose URL never changes, every range and cap
TerminateConfigs ==
    {c \in GenConfigs :
        /\ c.base_url = <<"https://", "host">> /\ c.padding = 1
        /\ c.filename_pattern \in {<<"file.part", "{index}", ".rar">>,
                                    <<"file.part", "{{index}}", ".rar">>}}

InitTerminate == Init /\ config \in TerminateConfigs

\* generate() is sequential and nothing else is scheduled, so the loop goes on
\* whenever it can: weak fairness of GenStep, with ENABLED <<GenStep>>_vars
\* written out as the guard of GenStep (each GenStep changes gpc or examined)
GenStepFair ==
    []<>~(scope = "generate" /\ gpc = "loop") \/ []<><<GenStep>>_vars

\* every request returns or fails: weak fairness of SessionHead and SessionGet,
\* with ENABLED written out in the same way (each appends to netlog)
RequestsFair ==
    /\ []<>~(vpc = "head") \/ []<><<SessionHead>>_vars
    /\ []<>~(vpc = "get") \/ []<><<SessionGet>>_vars

\* a generation run of a program that keeps running and whose requests all
\* return or fail
SpecTerminate ==
    /\ InitTerminate /\ [][Next]_vars
    /\ GenStepFair /\ RequestsFair

----------------------------------------------------------------------------
(* _generate_report: either mode, with the resolver *)

\* the resolver is in state r: its caller goes on
Resolved(r) ==
    /\ SetRes(r)
    /\ IF scope = "input"
       THEN LET w == AfterResolve(config, G, V, r)
            IN  SetGen(w.g) /\ SetVal(w.v)
       ELSE UNCHANGED <<genVars, valVars>>
    /\ UNCHANGED <<mainVars, scope, config, resp>>

\* main.py lines 169-175 and 111-112
InitReport ==
    /\ config \in ReportConfigs
    /\ scope = IF config.input_urls /= <<>> THEN "input" ELSE "generate"
    /\ gpc = "loop" /\ examined = 0 /\ parts = <<>>
    /\ index = IF config.input_urls /= <<>> THEN 1 ELSE config.start_index
    /\ seen_urls = {} /\ stop_reason = Completed /\ stop_index = None
    /\ report = None /\ probes = <<>> /\ resolves = <<>>
    /\ vpc = "idle" /\ vurl = <<>> /\ attempt = 0 /\ result = None
    /\ netlog = <<>> /\ headResp = None /\ getResp = None
    /\ resp = NoResp
    /\ rpc = "idle" /\ rurl = <<>> /\ resolved = None /\ rlog = <<>>
    /\ driver = "none" /\ page = None
    /\ MainIdle

\* main.py lines 114-131: the next URL of the list, up to the first request
InputStep ==
    /\ scope = "input" /\ gpc = "loop"
    /\ UNCHANGED <<mainVars, scope, config, resp>>
    /\ IF index > Len(config.input_urls)
       THEN SetGen(InputFinish(config, G)) /\ UNCHANGED <<valVars, resVars>>
       ELSE LET r == ResolveCall(config, config.input_urls[index])
                w == AfterResolve(config, [G EXCEPT !.examined = examined + 1], V, r)
            IN  SetRes(r) /\ SetGen(w.g) /\ SetVal(w.v)

\* requests.get of the resolver answers (or fails)
PageGet ==
    /\ rpc = "fetch"
    /\ \E o \in PageOutcomes : Resolved(PageFetched(config, R, o))

\* the selenium imports
ImportSelenium ==
    /\ rpc = "import"
    /\ \E o \in ImportOutcomes : Resolved(SeleniumImport(config, R, o))

\* webdriver.Chrome(...)
StartDriver ==
    /\ rpc = "start"
    /\ \E o \in DriverOutcomes : Resolved(SeleniumStart(config, R, o))

\* driver.get, the wait for the button, the click
ClickDownload ==
    /\ rpc = "navigate"
    /\ \E o \in DriverOutcomes : Resolved(SeleniumClick(config, R, o))

\* one pass of the polling loop; the timeout bounds the number of passes
PollWindows ==
    /\ rpc = "poll"
    /\ \E o \in PollOutcomes :
          /\ o.kind = "tick" => Polls(R) < MaxPolls
          /\ Resolved(SeleniumPoll(config, R, o))

NextResolver == PageGet \/ ImportSelenium \/ StartDriver \/ ClickDownload \/ PollWindows

NextReport == GenStep \/ InputStep \/ SessionHead \/ SessionGet \/ NextResolver

SpecReport == InitReport /\ [][NextReport]_vars

----------------------------------------------------------------------------
(* One resolve_download_button_link call on its own *)

InitResolve ==
    /\ scope = "resolve"
    /\ config \in ResolveConfigs
    /\ gpc = "none" /\ index = 0 /\ examined = 0 /\ parts = <<>>
    /\ seen_urls = {} /\ stop_reason = Completed /\ stop_index = None
    /\ report = None /\ probes = <<>> /\ resolves = <<>>
    /\ vpc = "idle" /\ vurl = <<>> /\ attempt = 0 /\ result = None
    /\ netlog = <<>> /\ headResp = None /\ getResp = None
    /\ resp = NoResp
    /\ rpc = "call" /\ rurl \in ResolveUrls /\ resolved = None /\ rlog = <<>>
    /\ driver = "none" /\ page = None
    /\ MainIdle

\* resolve_download_button_link(url, ...) is called: lines 121-126
Resolve ==
    /\ scope = "resolve" /\ rpc = "call"
    /\ Resolved(ResolveCall(config, rurl))

NextResolve == Resolve \/ PageGet \/ ImportSelenium \/ StartDriver \/ ClickDownload
               \/ PollWindows

SpecResolve == InitResolve /\ [][NextResolve]_vars

----------------------------------------------------------------------------
(* reconcile_resume_urls on its own, applied again to what it returned *)

InitReconcile ==
    /\ scope = "reconcile"
    /\ config \in ReconcileConfigs
    /\ gpc = "none" /\ index = 0 /\ examined = 0 /\ parts = <<>>
    /\ seen_urls = {} /\ stop_reason = Completed /\ stop_index = None
    /\ report = None /\ probes = <<>> /\ resolves = <<>>
    /\ vpc = "idle" /\ vurl = <<>> /\ attempt = 0 /\ result = None
    /\ netlog = <<>> /\ headResp = None /\ getResp = None
    /\ resp = NoResp
    /\ rpc = "idle" /\ rurl = <<>> /\ resolved = None /\ rlog = <<>>
    /\ driver = "none" /\ page = None
    /\ exit_code = None
    /\ resume_urls \in SUBSET ResumeUrls /\ state_dir \in StateDirs /\ reconciled = <<>>
    /\ dry_run = FALSE /\ files = <<>> /\ qparts = <<>> /\ qpc = "idle" /\ qi = 0
    /\ queued_count = 0 /\ skipped_count = 0 /\ updated_resume = {} /\ queue_seen = {}
    /\ interrupted = FALSE /\ sticky_existing_action = None /\ idm = <<>>
    /\ prompts = <<>>
    /\ RunIdle

\* controller.reconcile_resume_urls(...), first on resume_urls, then on the set
\* the call before returned; the state directory is left as it is
Reconcile ==
    /\ scope = "reconcile" /\ Len(reconciled) < MaxRounds
    /\ reconciled' = Append(reconciled,
          reconcile_resume_urls(IF reconciled = <<>> THEN resume_urls
                                ELSE reconciled[Len(reconciled)], state_dir))
    /\ UNCHANGED <<scope, config, genVars, valVars, resp, resVars, exit_code, resume_urls,
                   state_dir, queueVars, runVars>>

NextReconcile == Reconcile

SpecReconcile == InitReconcile /\ [][NextReconcile]_vars

----------------------------------------------------------------------------
(* queue_parts on its own *)

\* lines 319-324
InitQueue ==
    /\ scope = "queue"
    /\ config \in QueueConfigs
    /\ gpc = "none" /\ index = 0 /\ examined = 0 /\ parts = <<>>
    /\ seen_urls = {} /\ stop_reason = Completed /\ stop_index = None
    /\ report = None /\ probes = <<>> /\ resolves = <<>>
    /\ vpc = "idle" /\ vurl = <<>> /\ attempt = 0 /\ result = None
    /\ netlog = <<>> /\ headResp = None /\ getResp = None
    /\ resp = NoResp
    /\ rpc = "idle" /\ rurl = <<>> /\ resolved = None /\ rlog = <<>>
    /\ driver = "none" /\ page = None
    /\ exit_code = None
    /\ resume_urls \in SUBSET QueueUrls /\ state_dir = <<>> /\ reconciled = <<>>
    /\ dry_run \in BOOLEAN /\ files \in DownloadDirs /\ qparts \in PartLists(MaxQueue)
    /\ qpc = "loop" /\ qi = 1
    /\ queued_count = 0 /\ skipped_count = 0 /\ updated_resume = resume_urls
    /\ queue_seen = {}
    /\ interrupted = FALSE /\ sticky_existing_action = None /\ idm = <<>>
    /\ prompts = <<>>
    /\ RunIdle

QueueUnchanged ==
    UNCHANGED <<scope, config, genVars, valVars, resp, resVars, recVars, dry_run, qparts,
                runVars>>

\* the loop test and the next part, up to the call of the download manager
NextPart ==
    /\ scope = "queue" /\ qpc = "loop"
    /\ \E answer \in Answers, unlink \in UnlinkOutcomes :
          SetQueue(NextPartOf(config, Q, qparts, resume_urls, dry_run, answer, unlink))
    /\ UNCHANGED exit_code
    /\ QueueUnchanged

\* the IDM process started by controller.queue_download ends; a
\* FileNotFoundError leaves queue_parts and run, and main returns 0
IdmEnds ==
    /\ scope = "queue" /\ qpc = "queue"
    /\ \E o \in IdmOutcomes :
          /\ SetQueue(QueueDownload(Q, qparts, o))
          /\ exit_code' = IF o = "FileNotFoundError" THEN Some(0) ELSE exit_code
    /\ QueueUnchanged

\* the URL that IDM has taken is noted and counted
NoteQueued ==
    /\ scope = "queue" /\ qpc = "submitted"
    /\ SetQueue(RecordQueued(Q, qparts))
    /\ UNCHANGED exit_code
    /\ QueueUnchanged

\* KeyboardInterrupt is raised in the try block of queue_parts: at the loop
\* test or in the checks of a part, in the call of the download manager
\* before IDM has taken the URL, or after IDM has taken it and before it is
\* noted
QueueInterrupt ==
    /\ scope = "queue" /\ qpc \in {"loop", "queue", "submitted"}
    /\ SetQueue(OnKeyboardInterrupt(Q))
    /\ UNCHANGED exit_code
    /\ QueueUnchanged

NextQueue == NextPart \/ IdmEnds \/ NoteQueued \/ QueueInterrupt

SpecQueue == InitQueue /\ [][NextQueue]_vars

----------------------------------------------------------------------------
(* run from the report on: the resume state, queue_parts, the queue start *)

InitRun ==
    /\ scope = "queue"
    /\ config \in RunConfigs
    /\ gpc = "none" /\ index = 0 /\ examined = 0 /\ parts = <<>>
    /\ seen_urls = {} /\ stop_reason = Completed /\ stop_index = None
    /\ report = None /\ probes = <<>> /\ resolves = <<>>
    /\ vpc = "idle" /\ vurl = <<>> /\ attempt = 0 /\ result = None
    /\ netlog = <<>> /\ headResp = None /\ getResp = None
    /\ resp = NoResp
    /\ rpc = "idle" /\ rurl = <<>> /\ resolved = None /\ rlog = <<>>
    /\ driver = "none" /\ page = None
    /\ exit_code = None
    /\ resume_urls = {} /\ state_dir = RunStateDir /\ reconciled = <<>>
    /\ dry_run \in BOOLEAN
    /\ files \in {{}, {Entry(<<"a", ".rar">>, "file")}}
    /\ qparts \in RunPartLists
    /\ qpc = "idle" /\ qi = 0
    /\ queued_count = 0 /\ skipped_count = 0 /\ updated_resume = {}
    /\ queue_seen = {}
    /\ interrupted = FALSE /\ sticky_existing_action = None /\ idm = <<>>
    /\ prompts = <<>>
    /\ runpc = "prepare" /\ resume_mode \in BOOLEAN /\ resume_file \in ResumeFiles
    /\ saves = <<>> /\ started = <<>>

\* lines 421-437: without parts run returns; otherwise the resume state is
\* loaded, the IDM paths are validated and the resume state reconciled unless
\* this is a dry run, and queue_parts is entered.  FileNotFoundError of
\* validate_idm_paths leaves run, and main returns 0
RunPrepare ==
    /\ runpc = "prepare"
    /\ UNCHANGED <<scope, config, genVars, valVars, resp, resVars, state_dir, dry_run, files,
                   qparts, queued_count, skipped_count, queue_seen, interrupted,
                   sticky_existing_action, idm, prompts, resume_mode, resume_file, saves,
                   started>>
    /\ IF qparts = <<>>
       THEN /\ runpc' = "returned" /\ exit_code' = Some(0)
            /\ UNCHANGED <<resume_urls, reconciled, qpc, qi, updated_resume>>
       ELSE \E paths \in PathOutcomes :
              LET loaded == IF resume_mode THEN load_resume_state(resume_file) ELSE {}
              IN  IF ~dry_run /\ paths = "FileNotFoundError"
                  THEN /\ runpc' = "raised" /\ exit_code' = Some(0)
                       /\ resume_urls' = loaded
                       /\ UNCHANGED <<reconciled, qpc, qi, updated_resume>>
                  ELSE /\ resume_urls' = IF Reconciles(config, dry_run, resume_mode)
                                         THEN reconcile_resume_urls(loaded, state_dir)
                                         ELSE loaded
                       /\ reconciled' = IF Reconciles(config, dry_run, resume_mode)
                                        THEN Append(reconciled, resume_urls')
                                        ELSE reconciled
                       /\ qpc' = "loop" /\ qi' = 1 /\ updated_resume' = resume_urls'
                       /\ runpc' = "queueing"
                       /\ UNCHANGED exit_code

\* lines 444-466 once queue_parts has returned: the resume state is saved
\* unless this is a dry run or resume mode is off, then the queue is started;
\* an error of save_resume_state or of start_queue leaves run, and main
\* returns 1
RunFinish ==
    /\ runpc = "queueing" /\ qpc = "returned"
    /\ UNCHANGED <<scope, config, genVars, valVars, resp, resVars, recVars, queueVars,
                   resume_mode>>
    /\ \E save \in SaveOutcomes, start \in StartOutcomes :
          LET calls == _post_queue_actions(config, dry_run, queued_count, interrupted)
          IN  IF Saves(dry_run, resume_mode) /\ save = "OSError"
              THEN /\ saves' = Append(saves, Save(updated_resume, save))
                   /\ runpc' = "raised" /\ exit_code' = Some(1)
                   /\ UNCHANGED <<resume_file, started>>
              ELSE /\ saves' = IF Saves(dry_run, resume_mode)
                               THEN Append(saves, Save(updated_resume, "ok")) ELSE saves
                   /\ resume_file' = IF Saves(dry_run, resume_mode)
                                     THEN updated_resume ELSE resume_file
                   /\ started' = started \o calls
                   /\ IF calls /= <<>> /\ start = "CalledProcessError"
                      THEN runpc' = "raised" /\ exit_code' = Some(1)
                      ELSE runpc' = "returned" /\ exit_code' = Some(0)

NextRun == RunPrepare \/ NextPart \/ IdmEnds \/ NoteQueued \/ QueueInterrupt \/ RunFinish

SpecRun == InitRun /\ [][NextRun]_vars

----------------------------------------------------------------------------
(* run: an interrupt while _generate_report is at work *)

\* KeyboardInterrupt is raised while an index is built, resolved or probed.
\* validate() catches requests.Timeout and requests.RequestException only,
\* the resolver catches requests.RequestException, ImportError and the selenium
\* exceptions and runs its finally clause, generate(),
\* build_report_from_input_urls and run() catch nothing: the exception reaches
\* main(), which prints "Interrupted by user." and returns 1 (main.py lines
\* 498-500)
GenerateInterrupt ==
    /\ scope \in {"generate", "input"}
    /\ gpc \in {"loop", "validating", "resolving"}
    /\ SetGen(GenRaises(G))
    /\ SetVal(IF vpc \in {"head", "get"} THEN Raises(V) ELSE V)
    /\ SetRes(IF rpc \in {"fetch", "import", "start", "navigate", "poll"}
              THEN ResRaises(Quit(R)) ELSE R)
    /\ exit_code' = Some(1)
    /\ UNCHANGED <<scope, config, resp, recVars, queueVars, runVars>>

NextInterrupt == NextReport \/ GenerateInterrupt

SpecInterrupt == InitReport /\ [][NextInterrupt]_vars

----------------------------------------------------------------------------
(* One validate() call on its own *)

InitProbe ==
    /\ scope = "validate"
    /\ config \in ProbeConfigs
    /\ gpc = "none" /\ index = 0 /\ examined = 0 /\ parts = <<>>
    /\ seen_urls = {} /\ stop_reason = Completed /\ stop_index = None
    /\ report = None /\ probes = <<>> /\ resolves = <<>>
    /\ vpc = "call" /\ vurl \in ProbeUrls /\ attempt = 0 /\ result = None
    /\ netlog = <<>> /\ headResp = None /\ getResp = None
    /\ resp = NoResp
    /\ rpc = "idle" /\ rurl = <<>> /\ resolved = None /\ rlog = <<>>
    /\ driver = "none" /\ page = None
    /\ MainIdle

\* validate(url) is called: lines 171-177
Validate ==
    /\ scope = "validate" /\ vpc = "call"
    /\ SetVal(ValidateCall(config, vurl))
    /\ UNCHANGED <<mainVars, scope, config, genVars, resp, resVars>>

NextProbe == Validate \/ SessionHead \/ SessionGet

SpecProbe == InitProbe /\ [][NextProbe]_vars

\* the same call under the options that decide how far the retry loop and the
\* fallback go: the HTML check on and a minimum size, so that every kind of
\* classification occurs
RetryConfigs ==
    {Merge(NoGenerator, o) :
        o \in ValidatorOptions(0..MaxRetry, {1, 3}, BOOLEAN, BOOLEAN, {TRUE}, {3})}

InitRetry == InitProbe /\ config \in RetryConfigs

SpecRetry == InitRetry /\ [][NextProbe]_vars

----------------------------------------------------------------------------
(* One attempt of a probe against every size header: validate() has passed *)
(* the URL check and session.head is about to answer                       *)

ExtractConfigs ==
    {Merge(NoGenerator, o) :
        o \in ValidatorOptions({0}, {1}, BOOLEAN, {FALSE}, {FALSE}, {0, 3})}

InitExtract ==
    /\ scope = "extract"
    /\ config \in ExtractConfigs
    /\ gpc = "none" /\ index = 0 /\ examined = 0 /\ parts = <<>>
    /\ seen_urls = {} /\ stop_reason = Completed /\ stop_index = None
    /\ report = None /\ probes = <<>> /\ resolves = <<>>
    /\ vpc = "head" /\ vurl = <<"https://", "host", "/", "dl", "/", "token">>
    /\ attempt = 1 /\ result = None
    /\ netlog = <<>> /\ headResp = None /\ getResp = None
    /\ resp = NoResp
    /\ rpc = "idle" /\ rurl = <<>> /\ resolved = None /\ rlog = <<>>
    /\ driver = "none" /\ page = None
    /\ MainIdle

NextExtract == SessionHead \/ SessionGet

SpecExtract == InitExtract /\ [][NextExtract]_vars

----------------------------------------------------------------------------
(* _validate_response on its own: every status, size, content type,        *)
(* content disposition, URL and option                                     *)

ClassifySizes == {0 - 1, 0, 1, 2, 3, 5}

ClassifyUrls ==
    {<<"https://", "host", "/", "file", ".rar">>,
     <<"https://", "host", "/", "dl", "/", "token">>,
     <<"https://", "host", "/", "x", "#", "name", ".RAR">>,
     <<"https://", "host", "/", "a", ".rar", "/", "x", "#", "b", ".rar", "/", "c">>}

ClassifyConfigs ==
    {Merge(NoGenerator, o) :
        o \in ValidatorOptions({0}, {1}, {TRUE}, BOOLEAN, BOOLEAN, {0, 3})}

InitClassify ==
    /\ scope = "classify"
    /\ config \in ClassifyConfigs
    /\ gpc = "none" /\ index = 0 /\ examined = 0 /\ parts = <<>>
    /\ seen_urls = {} /\ stop_reason = Completed /\ stop_index = None
    /\ report = None /\ probes = <<>> /\ resolves = <<>>
    /\ vpc = "classify" /\ vurl \in ClassifyUrls /\ attempt = 0 /\ result = None
    /\ netlog = <<>> /\ headResp = None /\ getResp = None
    /\ resp \in [status_code : Statuses, size_bytes : ClassifySizes,
                 headers : HeaderMaps({None}, {None}, ContentTypes, ContentDispositions)]
    /\ rpc = "idle" /\ rurl = <<>> /\ resolved = None /\ rlog = <<>>
    /\ driver = "none" /\ page = None
    /\ MainIdle

Classify ==
    /\ scope = "classify" /\ vpc = "classify"
    /\ vpc' = "returned"
    /\ result' = Some(_validate_response(config, vurl, resp.status_code, resp.size_bytes,
                                         resp.headers))
    /\ UNCHANGED <<mainVars, scope, config, genVars, vurl, attempt, netlog, headResp,
                   getResp, resp, resVars>>

NextClassify == Classify

SpecClassify == InitClassify /\ [][NextClassify]_vars

----------------------------------------------------------------------------
(* Sequential generation: stop on the first invalid part *)

LastProbe == probes[Len(probes)]

\* the probes before the last one were valid and ran over start_index, start_index+1, ...
ValidRunBeforeLast ==
    \A i \in 1..(Len(probes) - 1) :
        probes[i].result.is_valid /\ probes[i].index = config.start_index + i - 1

\* C1: when the indices start_index..k-1 probe valid and index k probes invalid,
\* generate() returns exactly the parts of start_index..k-1 in order, with
\* examined_count = k - start_index + 1, stop_reason = the reason of the invalid
\* probe and stop_index = k.
C1_StopsOnFirstInvalid ==
    (scope = "generate" /\ probes /= <<>> /\ ~LastProbe.result.is_valid /\ ValidRunBeforeLast)
    => LET k == LastProbe.index
       IN  /\ gpc = "returned"
           /\ report /= None
           /\ Len(report[1].parts) = k - config.start_index
           /\ \A i \in 1..Len(report[1].parts) :
                 /\ report[1].parts[i].index = config.start_index + i - 1
                 /\ report[1].parts[i].url = probes[i].url
                 /\ report[1].parts[i].size_bytes = probes[i].result.size_bytes
           /\ report[1].examined_count = k - config.start_index + 1
           /\ report[1].stop_reason = LastProbe.result.reason
           /\ report[1].stop_index = Some(k)

\* two valid parts, then HTTP 404 at the third index
C1_Witness ==
    /\ scope = "generate" /\ report /= None
    /\ Len(probes) = 3 /\ Len(report[1].parts) = 2
    /\ probes[1].result.is_valid /\ probes[2].result.is_valid
    /\ report[1].stop_reason = [kind |-> ReasonHTTP, num |-> 404, detail |-> ""]
    /\ report[1].stop_index = Some(config.start_index + 2)

\* a step in which generate() calls validate()
ProbeBegins == gpc = "loop" /\ (gpc' = "validating" \/ Len(probes') > Len(probes))

\* C2: probes are issued one at a time, in increasing index order from
\* start_index, each one finished before the next index is considered, and after
\* a probe has returned invalid nothing more is examined or requested.
C2_ProbesInOrder ==
    [][/\ ProbeBegins =>
            /\ vpc \notin {"head", "get"}
            /\ index = config.start_index + Len(probes)
            /\ vurl' = _build_url(config, config.start_index + Len(probes))
            /\ \A i \in 1..Len(probes) : probes[i].result.is_valid
       /\ probes' /= probes =>
            /\ Len(probes') = Len(probes) + 1
            /\ SubSeq(probes', 1, Len(probes)) = probes
            /\ probes'[Len(probes')].index = config.start_index + Len(probes)
            /\ probes'[Len(probes')].url = vurl'
       /\ (vpc \in {"head", "get"} /\ netlog' /= netlog) =>
            /\ gpc = "validating"
            /\ vurl = _build_url(config, config.start_index + Len(probes))
       /\ (probes /= <<>> /\ ~LastProbe.result.is_valid) =>
            UNCHANGED <<probes, netlog, vurl, vpc, examined, seen_urls, index>>
      ]_vars

\* the third probe was retried after a timeout and then came back invalid
C2_Witness ==
    /\ scope = "generate" /\ gpc = "returned"
    /\ Len(probes) = 3 /\ ~LastProbe.result.is_valid
    /\ Len(netlog) = 3 /\ netlog[1].kind = "timeout" /\ netlog[2].req = "sleep"

\* C10 as first stated: whenever the index has passed end_index the run has
\* stopped with "reached end_index" and no stop_index.
C10_EndIndexAlwaysReported ==
    (scope = "generate" /\ gpc = "returned" /\ config.end_index /= None
        /\ index > config.end_index[1])
    => /\ report /= None
       /\ report[1].stop_reason = ReachedEndIndex
       /\ report[1].stop_index = None

\* C10, amended: with an end index configured no index beyond it is ever
\* constructed or probed; a run whose index has passed end_index (so every index
\* up to end_index probed valid) reports "reached end_index" with no stop_index
\* when max_part > end_index - start_index + 1, and "reached max_part" with
\* stop_index = end_index + 1 when max_part = end_index - start_index + 1;
\* "reached end_index" is reported only in the first case.
C10_EndIndexUnlessCapped ==
    (scope = "generate" /\ config.end_index /= None)
    => LET e == config.end_index[1]
           span == config.end_index[1] - config.start_index + 1
       IN  /\ \A i \in 1..Len(probes) : probes[i].index <= e
           /\ \A u \in seen_urls :
                 \E i \in config.start_index..e : u = _build_url(config, i)
           /\ vpc \in {"head", "get"} => index <= e
           /\ index <= e + 1
           /\ (gpc = "returned" /\ index > e) =>
                 /\ report /= None
                 /\ Len(report[1].parts) = span
                 /\ report[1].examined_count = span
                 /\ IF config.max_part > span
                    THEN /\ report[1].stop_reason = ReachedEndIndex
                         /\ report[1].stop_index = None
                    ELSE /\ config.max_part = span
                         /\ report[1].stop_reason = ReachedMaxPart
                         /\ report[1].stop_index = Some(e + 1)
           /\ (report /= None /\ report[1].stop_reason = ReachedEndIndex) =>
                 /\ index = e + 1
                 /\ config.max_part > span
                 /\ report[1].stop_index = None

\* start_index..end_index all valid under a larger max_part
C10_Witness ==
    /\ scope = "generate" /\ report /= None
    /\ config.end_index = Some(config.start_index + 1)
    /\ config.max_part = 3
    /\ Len(report[1].parts) = 2
    /\ report[1].stop_reason = ReachedEndIndex
    /\ report[1].stop_index = None

----------------------------------------------------------------------------
(* Sequential generation: the cap, the duplicate test, the order of parts *)

AllProbesValid == \A i \in 1..Len(probes) : probes[i].result.is_valid

\* C11: when generate() returns after max_part probes that were all valid (no
\* duplicate, no invalid part, end_index not met by the loop), the report has
\* stop_reason "reached max_part", stop_index start_index + max_part,
\* examined_count max_part and exactly max_part parts; and "reached max_part" is
\* reported in no other case.
C11_CapReached ==
    (scope = "generate" /\ report /= None)
    => /\ (Len(probes) = config.max_part /\ AllProbesValid)
            => /\ report[1].stop_reason = ReachedMaxPart
               /\ report[1].stop_index = Some(config.start_index + config.max_part)
               /\ report[1].examined_count = config.max_part
               /\ Len(report[1].parts) = config.max_part
       /\ report[1].stop_reason = ReachedMaxPart
            => (Len(probes) = config.max_part /\ AllProbesValid)

\* three valid parts from start_index 1 with max_part 3 and no end_index
C11_Witness ==
    /\ scope = "generate" /\ report /= None
    /\ config.max_part = 3 /\ config.start_index = 1 /\ config.end_index = None
    /\ Len(report[1].parts) = 3
    /\ report[1].stop_reason = ReachedMaxPart
    /\ report[1].stop_index = Some(4)

ProbedUrls == {probes[i].url : i \in 1..Len(probes)}

\* the loop is about to construct, for the current index, a URL it examined before
DuplicateAhead ==
    /\ scope = "generate" /\ gpc = "loop"
    /\ examined < config.max_part
    /\ ~(config.end_index /= None /\ index > config.end_index[1])
    /\ _build_url(config, index) \in ProbedUrls

\* C12: when the URL constructed for the current index was examined earlier in
\* the run, the step returns the report with stop_reason "duplicate URL
\* generated" and stop_index = the current index; the duplicate is counted in
\* examined_count, no request is made for it and no part is added.
C12_DuplicateStops ==
    [][DuplicateAhead =>
          /\ gpc' = "returned"
          /\ report' = Some(GenerationReport(parts, examined + 1, DuplicateUrl, Some(index)))
          /\ probes' = probes /\ parts' = parts
          /\ UNCHANGED valVars
      ]_vars

\* the pattern without a placeholder gives the first URL again at the second index
C12_Witness ==
    /\ scope = "generate" /\ report /= None
    /\ report[1].stop_reason = DuplicateUrl
    /\ report[1].stop_index = Some(config.start_index + 1)
    /\ report[1].examined_count = 2
    /\ Len(report[1].parts) = 1 /\ Len(probes) = 1

\* the part at position i of ps is the valid probe number i of the run
PartOfProbe(ps, i) ==
    /\ i <= Len(probes)
    /\ probes[i].index = ps[i].index
    /\ probes[i].url = ps[i].url
    /\ probes[i].result.is_valid

\* C15: in sequential mode the parts carry the indices start_index,
\* start_index + 1, ... in this order (strictly increasing, no gap, no repeat),
\* in every state of the loop and in the report, and every part is of an index
\* whose URL was examined and probed in this run.
C15_PartsInIndexOrder ==
    scope = "generate"
    => /\ \A i \in 1..Len(parts) :
             parts[i].index = config.start_index + i - 1 /\ PartOfProbe(parts, i)
       /\ report /= None
            => \A i \in 1..Len(report[1].parts) :
                  /\ report[1].parts[i].index = config.start_index + i - 1
                  /\ PartOfProbe(report[1].parts, i)

\* a report of three parts from start_index 1
C15_Witness ==
    /\ scope = "generate" /\ report /= None
    /\ config.start_index = 1
    /\ Len(report[1].parts) = 3
    /\ report[1].parts[3].index = 3

----------------------------------------------------------------------------
(* The generation report of either mode *)

\* the size-unknown exception of the input-list mode
SizeUnknown(res) ==
    /\ res.status_code \in {Some(200), Some(206)}
    /\ res.size_bytes = 0
    /\ res.reason = [kind |-> ReasonTooSmall, num |-> 0, detail |-> ""]

\* C13: in every state of the sequential loop and in its report,
\* len(parts) <= examined <= max_part; the report of the input-list mode
\* satisfies len(parts) <= examined_count.
C13_ExaminedBounds ==
    /\ scope = "generate"
         => /\ Len(parts) <= examined /\ examined <= config.max_part
            /\ report /= None
                 => /\ Len(report[1].parts) <= report[1].examined_count
                    /\ report[1].examined_count <= config.max_part
    /\ (scope = "input" /\ report /= None)
         => Len(report[1].parts) <= report[1].examined_count

\* a sequential run that examined max_part = 3 URLs and kept two parts
C13_Witness ==
    /\ scope = "generate" /\ report /= None
    /\ config.max_part = 3
    /\ report[1].examined_count = 3
    /\ Len(report[1].parts) = 2

\* the run ended without early termination: the input list was exhausted, or
\* the sequential loop passed end_index with every examined part valid
NoEarlyTermination ==
    \/ scope = "input"
    \/ /\ scope = "generate"
       /\ report[1].examined_count = Len(report[1].parts)
       /\ config.end_index /= None
       /\ report[1].examined_count = config.end_index[1] - config.start_index + 1

\* C14 as stated: the stop_reason of every report is set, and it is
\* "completed" when the generation ended without early termination.
C14_CompletedByDefault ==
    report /= None
    => /\ report[1].stop_reason.kind /= ""
       /\ NoEarlyTermination => report[1].stop_reason = Completed

\* C14 as amended: the stop_reason of every report is set: in input-list mode
\* it is "input_urls processed"; in sequential mode it is "reached end_index",
\* "duplicate URL generated", "reached max_part" or the reason of the invalid
\* probe the loop stopped on; "completed" is the reason of no report.
C14_StopReasonSet ==
    report /= None
    => /\ report[1].stop_reason.kind /= ""
       /\ report[1].stop_reason /= Completed
       /\ scope = "input" => report[1].stop_reason = InputProcessed
       /\ scope = "generate"
            => \/ report[1].stop_reason \in {ReachedEndIndex, DuplicateUrl, ReachedMaxPart}
               \/ /\ probes /= <<>> /\ ~LastProbe.result.is_valid
                  /\ report[1].stop_reason = LastProbe.result.reason

\* the whole range start_index..end_index was examined and found valid
C14_Witness ==
    /\ scope = "generate" /\ report /= None
    /\ config.end_index = Some(config.start_index + 1) /\ config.max_part = 3
    /\ Len(report[1].parts) = 2
    /\ report[1].stop_reason = ReachedEndIndex

\* a part with the index and URL of probe j
HasPart(ps, j) ==
    \E i \in 1..Len(ps) : ps[i].index = probes[j].index /\ ps[i].url = probes[j].url

\* every part of ps is of a probe of the run, and a probe that came out
\* invalid has a part only under the size-unknown exception of the input-list
\* mode
PartsOfAcceptedProbes(ps) ==
    /\ \A i \in 1..Len(ps) : \E j \in 1..Len(probes) :
          probes[j].index = ps[i].index /\ probes[j].url = ps[i].url
    /\ \A j \in 1..Len(probes) :
          (~probes[j].result.is_valid /\ HasPart(ps, j))
          => (scope = "input" /\ SizeUnknown(probes[j].result))
    /\ \A j, k \in 1..Len(probes) : probes[j].index = probes[k].index => j = k

Accepted(j) == probes[j].result.is_valid \/ SizeUnknown(probes[j].result)

\* the positions 1..n of the accepted URLs, in order
RECURSIVE AcceptedUpTo(_)
AcceptedUpTo(n) ==
    IF n = 0 THEN <<>>
    ELSE AcceptedUpTo(n - 1) \o (IF Accepted(n) THEN <<n>> ELSE <<>>)

\* C17: the report of the input-list mode has examined_count = the length of
\* the list, whatever max_part is and whatever the earlier results were; every
\* URL of the list was resolved and probed exactly once, in list order; the
\* parts are the accepted URLs in list order, each with its 1-based position in
\* the list as index.
C17_InputListExhausted ==
    (scope = "input" /\ report /= None)
    => LET n == Len(config.input_urls)
           acc == AcceptedUpTo(n)
       IN  /\ report[1].examined_count = n
           /\ report[1].stop_index = Some(n)
           /\ Len(resolves) = n /\ Len(probes) = n
           /\ \A i \in 1..n :
                 /\ resolves[i].index = i /\ resolves[i].url = config.input_urls[i]
                 /\ probes[i].index = i
                 /\ probes[i].url = resolves[i].result.resolved_url
           /\ Len(report[1].parts) = Len(acc)
           /\ \A k \in 1..Len(acc) :
                 /\ report[1].parts[k].index = acc[k]
                 /\ report[1].parts[k].url = probes[acc[k]].url

\* two URLs with max_part 1: the first is rejected, the second is kept as part 2
C17_Witness ==
    /\ scope = "input" /\ report /= None
    /\ Len(config.input_urls) = 2 /\ config.max_part = 1
    /\ ~Accepted(1) /\ probes[2].result.is_valid
    /\ report[1].examined_count = 2
    /\ Len(report[1].parts) = 1 /\ report[1].parts[1].index = 2

\* probe j was made on the resolved URL of the resolver call for the same
\* candidate, which came before it
ResolvedBeforeProbed(j) ==
    /\ j <= Len(resolves)
    /\ resolves[j].index = probes[j].index
    /\ probes[j].url = resolves[j].result.resolved_url

\* C18 as stated: in both modes, for every candidate the resolver is invoked
\* before the prober and the prober is applied to the resolver's resolved URL.
C18_ResolverBeforeProber ==
    scope \in {"generate", "input"}
    => /\ \A j \in 1..Len(probes) : ResolvedBeforeProbed(j)
       /\ gpc = "validating" => Len(resolves) = Len(probes) + 1

\* C18 as amended: in input-list mode, for every candidate the resolver is
\* invoked before the prober and the prober is applied to the resolver's
\* resolved URL (the URL of the list when nothing was resolved); in sequential
\* mode the resolver is not invoked and the prober is applied to the
\* constructed URL.
C18_ResolverBeforeProberInInputMode ==
    /\ scope = "input"
         => /\ \A j \in 1..Len(probes) :
                  /\ ResolvedBeforeProbed(j)
                  /\ resolves[j].url = config.input_urls[probes[j].index]
                  /\ ~resolves[j].result.was_resolved
                       => probes[j].url = config.input_urls[probes[j].index]
            /\ gpc = "validating"
                 => /\ Len(resolves) = Len(probes) + 1
                    /\ vurl = resolves[Len(resolves)].result.resolved_url
            /\ gpc = "resolving" => (Len(resolves) = Len(probes) /\ vpc /= "head" /\ vpc /= "get")
    /\ scope = "generate"
         => /\ resolves = <<>> /\ rpc = "idle" /\ rlog = <<>>
            /\ \A j \in 1..Len(probes) :
                  probes[j].url = _build_url(config, probes[j].index)

\* a landing page resolved through window.open, and the probe of the resolved URL
C18_Witness ==
    /\ scope = "input" /\ probes /= <<>>
    /\ resolves[1].url = <<"https://", "host", "/", "page">>
    /\ resolves[1].result.was_resolved
    /\ probes[1].url = <<"https://", "host", "/", "dl", "/", "TOKEN">>
    /\ probes[1].result.is_valid

----------------------------------------------------------------------------
(* The landing-page resolver *)

\* the URLs of the model whose path contains "/dl/"
DirectUrls ==
    {<<"https://", "host", "/", "dl", "/", "token">>, <<"host", "/", "dl", "/", "x">>}

ResolveSkipped == ~config.resolve_download_button_links \/ rurl \in DirectUrls

\* C19: when resolution is disabled or the path of the URL contains "/dl/",
\* resolve returns at once was_resolved = false and the input URL: no page is
\* fetched and no browser session is started.
C19_ImmediateReturn ==
    (scope = "resolve" /\ rpc /= "call" /\ ResolveSkipped)
    => /\ rpc = "returned"
       /\ resolved /= None
       /\ ~resolved[1].was_resolved
       /\ resolved[1].resolved_url = rurl
       /\ resolved[1].reason.kind =
             (IF ~config.resolve_download_button_links THEN ReasonDisabled ELSE ReasonDirect)
       /\ rlog = <<>> /\ page = None /\ driver = "none"

\* an already direct URL, with the resolver and the browser fallback enabled
C19_Witness ==
    /\ scope = "resolve" /\ rpc = "returned"
    /\ config.resolve_download_button_links /\ config.selenium_fallback_enabled
    /\ rurl = <<"https://", "host", "/", "dl", "/", "token">>
    /\ resolved[1].reason.kind = ReasonDirect
    /\ rlog = <<>>

\* an absolute http(s) URL: the scheme, then a host
AbsoluteHttp(url) ==
    /\ Len(url) >= 2
    /\ url[1] \in {"http://", "https://"}
    /\ url[2] \notin {"/", "#"}

\* C20: whenever resolve has returned, was_resolved = false implies that
\* resolved_url is the input URL, was_resolved = true implies that
\* resolved_url is an absolute http(s) URL, and the reason is not empty.
C20_ResolveResultShape ==
    (scope = "resolve" /\ resolved /= None)
    => /\ rpc = "returned"
       /\ ~resolved[1].was_resolved => resolved[1].resolved_url = rurl
       /\ resolved[1].was_resolved
            => /\ AbsoluteHttp(resolved[1].resolved_url)
               /\ resolved[1].reason.kind
                    \in {ReasonWindowOpen, ReasonHref, ReasonClick, ReasonSameTab}
       /\ resolved[1].reason.kind /= ""

\* a relative href of a redirected landing page, resolved against the final URL
C20_Witness ==
    /\ scope = "resolve" /\ rpc = "returned"
    /\ rurl = <<"https://", "host", "/", "page">>
    /\ resolved[1].was_resolved
    /\ resolved[1].reason.kind = ReasonHref
    /\ resolved[1].resolved_url = <<"https://", "cdn", "/", "dl", "/", "x">>

\* the content types of the model that begin with text/html once the parameters
\* are cut off and the rest is stripped and lowercased
HtmlPageContentTypes ==
    {Some(<<"text/html", ";", " ", "charset=utf-8">>), Some(<<" ", "TEXT/HTML">>)}

\* the page fetch was answered with an HTML landing page
HtmlLanding == page /= None /\ page[1].content_type \in HtmlPageContentTypes

\* the candidates of matches that are absolute http(s) URLs once resolved
\* against the final URL of the page, in the order of the page
Qualifying(matches) ==
    SelectSeq([i \in 1..Len(matches) |-> urljoin(page[1].url, matches[i])], AbsoluteHttp)

\* the browser-automation fallback was entered
Automated == \E i \in 1..Len(rlog) : rlog[i].req = "import"

\* C21: on an HTML landing page, the first window.open URL that is an absolute
\* http(s) URL is returned, whatever '/dl/' anchors the page has; the first
\* qualifying anchor href is returned only when no window.open URL qualifies;
\* the browser fallback is entered exactly when no static pattern qualifies and
\* the fallback is enabled, and a URL it resolves is the one returned.
C21_StrategyOrder ==
    (scope = "resolve" /\ HtmlLanding)
    => LET opens == Qualifying(WindowOpenFindAll(page[1].text, 1))
           hrefs == Qualifying(HrefDlFindAll(page[1].text, 1))
       IN  /\ opens /= <<>>
              => /\ rpc = "returned"
                 /\ resolved[1] = ResolveResult(opens[1], TRUE, ReasonWindowOpen, "", "")
           /\ (opens = <<>> /\ hrefs /= <<>>)
              => /\ rpc = "returned"
                 /\ resolved[1] = ResolveResult(hrefs[1], TRUE, ReasonHref, "", "")
           /\ Automated
              => opens = <<>> /\ hrefs = <<>> /\ config.selenium_fallback_enabled
           /\ (opens = <<>> /\ hrefs = <<>> /\ config.selenium_fallback_enabled)
              => rpc = "import" \/ Automated
           /\ (opens = <<>> /\ hrefs = <<>> /\ ~config.selenium_fallback_enabled)
              => /\ rpc = "returned"
                 /\ resolved[1] = ResolveResult(rurl, FALSE, ReasonNotFound, "", "")
           /\ (Automated /\ resolved /= None /\ resolved[1].was_resolved)
              => /\ resolved[1].reason.kind \in {ReasonClick, ReasonSameTab}
                 /\ resolved[1].resolved_url \in BrowserUrls

\* a page with a qualifying '/dl/' anchor ahead of a qualifying window.open call:
\* the window.open URL is returned
C21_Witness ==
    /\ scope = "resolve" /\ rpc = "returned" /\ HtmlLanding
    /\ page[1].text =
          <<"<a ", "href", "=", "\"", "https://", "host", "/", "dl", "/", "B", "\"", ">",
            "window.open(", "\"", "https://", "host", "/", "dl", "/", "A", "\"", ")">>
    /\ resolved[1].resolved_url = <<"https://", "host", "/", "dl", "/", "A">>
    /\ resolved[1].reason.kind = ReasonWindowOpen

\* webdriver.Chrome(...) returned a session
Acquired == \E i \in 1..Len(rlog) : rlog[i].req = "start" /\ rlog[i].kind = "ok"

\* the calls of driver.quit()
Quits == Cardinality({i \in 1..Len(rlog) : rlog[i].req = "quit"})

\* C22: a browser session is open only while the browser is driven; when
\* resolve has returned or raised, the session it acquired (if any) has been
\* quit exactly once and none is open, and no session is quit that was not
\* acquired.
C22_SessionReleasedOnce ==
    scope = "resolve"
    => /\ driver = "open" => rpc \in {"navigate", "poll"}
       /\ Quits <= 1
       /\ Quits = 1 => Acquired /\ driver = "quit"
       /\ rpc \in {"returned", "raised"}
          => /\ driver /= "open"
             /\ Quits = (IF Acquired THEN 1 ELSE 0)

\* an exception that is neither TimeoutException nor WebDriverException leaves
\* the polling loop after one pass: the session is quit, then resolve raises
C22_Witness ==
    /\ scope = "resolve" /\ rpc = "raised"
    /\ Acquired /\ driver = "quit" /\ Quits = 1
    /\ \E i \in 1..Len(rlog) : rlog[i].req = "poll" /\ rlog[i].kind = "tick"
    /\ \E i \in 1..Len(rlog) : rlog[i].req = "poll" /\ rlog[i].kind = "exception"

\* the calls of the resolver other than driver.quit()
Calls == SelectSeq(rlog, LAMBDA e : e.req /= "quit")

\* no call raised an exception other than the anticipated ones
\* (requests.RequestException, ImportError, TimeoutException, WebDriverException)
Anticipated == \A i \in 1..Len(rlog) : rlog[i].kind /= "exception"

\* C23: as long as only anticipated failures occur, resolve does not raise;
\* when the page fetch fails, the selenium import fails, a browser call
\* (starting the browser included) fails or the polling ends with no link,
\* resolve returns the input URL with was_resolved = false and a reason that
\* names that cause.
C23_NoHardFailure ==
    scope = "resolve"
    => /\ Anticipated => rpc /= "raised"
       /\ (rpc = "returned" /\ Calls /= <<>>)
          => LET last == Calls[Len(Calls)]
             IN  /\ (last.req = "GET" /\ last.kind \in {"timeout", "error"})
                    => resolved[1] = ResolveResult(rurl, FALSE, ReasonFetchError, "",
                                                   last.detail)
                 /\ (last.req = "import" /\ last.kind = "ImportError")
                    => resolved[1] = ResolveResult(rurl, FALSE, ReasonNotFound,
                                                   ReasonNoSelenium, "")
                 /\ (last.req \in {"start", "click", "poll"} /\ last.kind = "error")
                    => resolved[1] = ResolveResult(rurl, FALSE, ReasonNotFound,
                                                   ReasonSeleniumError, last.detail)
                 /\ (last.req = "poll" /\ last.kind = "deadline")
                    => resolved[1] = ResolveResult(rurl, FALSE, ReasonNotFound,
                                                   ReasonNoLink, "")

\* the browser cannot be started
C23_Witness ==
    /\ scope = "resolve" /\ rpc = "returned"
    /\ Calls /= <<>>
    /\ Calls[Len(Calls)].req = "start" /\ Calls[Len(Calls)].kind = "error"
    /\ resolved[1].reason.sub = ReasonSeleniumError
    /\ resolved[1].reason.detail = "chrome not reachable"
    /\ ~resolved[1].was_resolved

----------------------------------------------------------------------------
(* The resume reconciler *)

\* the state directory gives no text: it is missing, is not a directory, or
\* each of its entries is a directory, too large, unreadable or empty
NoState ==
    \/ ~state_dir.exists
    \/ ~state_dir.is_dir
    \/ \A i \in 1..Len(state_dir.entries) :
          LET entry == state_dir.entries[i]
          IN  entry.kind = "dir" \/ entry.too_large \/ entry.read = "OSError"
              \/ entry.data = <<>>

\* C24: when the state directory gives no text, reconcile returns the resume
\* set it was given, with nothing removed.
C24_FailsOpen ==
    (scope = "reconcile" /\ reconciled /= <<>> /\ NoState) => reconciled[1] = resume_urls

\* a directory that holds an empty file and a file that cannot be read
C24_Witness ==
    /\ scope = "reconcile" /\ reconciled /= <<>>
    /\ state_dir = StateDir(TRUE, TRUE,
                            <<StateFile("file", FALSE, "ok", <<>>),
                              StateFile("file", FALSE, "OSError", <<"FILEA", ".RAR">>)>>)
    /\ Cardinality(resume_urls) = 2
    /\ reconciled[1] = resume_urls

\* the lowercase match tokens of the resume URLs of the model: the URL without
\* its fragment, the last segment of the decoded path, the last segment of the
\* decoded fragment, those that are not empty
MatchTokens(url) ==
    CASE url = <<"https://", "host", "/", "dl", "/", "AAA", "#", "fileA", ".rar">>
           -> {<<"https://", "host", "/", "dl", "/", "aaa">>, <<"aaa">>, <<"filea", ".rar">>}
      [] url = <<"https://", "host", "/", "dl", "/", "BBB", "#", "fileB", ".rar">>
           -> {<<"https://", "host", "/", "dl", "/", "bbb">>, <<"bbb">>, <<"fileb", ".rar">>}
      [] url = <<"https://", "HOST", "/", "files", "/", "part1", ".RAR">>
           -> {<<"https://", "host", "/", "files", "/", "part1", ".rar">>,
               <<"part1", ".rar">>}
      [] url = <<"https://", "host", "/", "x", "/", "name", "%2Erar">>
           -> {<<"https://", "host", "/", "x", "/", "name", "%2erar">>, <<"name", ".rar">>}
      [] url = <<"https://", "host">> -> {<<"https://", "host">>}

\* a token of the URL occurs in the lowercased text of a file that was read
InState(url) ==
    \E i \in 1..Len(state_dir.entries) :
        LET entry == state_dir.entries[i]
        IN  /\ entry.kind = "file" /\ ~entry.too_large /\ entry.read = "ok"
            /\ \E token \in MatchTokens(url) : Contains(Lower(entry.data), token)

\* C25: when the state directory gives text, reconcile returns exactly the
\* URLs of the resume set of which a token occurs in the lowercased state
\* text: the others are removed and no URL is added.
C25_KeptIffTokenInState ==
    (scope = "reconcile" /\ reconciled /= <<>> /\ ~NoState)
    => reconciled[1] = {url \in resume_urls : InState(url)}

\* the state holds only FILEA.RAR: of A#fileA.rar and B#fileB.rar, A is kept
C25_Witness ==
    /\ scope = "reconcile" /\ reconciled /= <<>>
    /\ state_dir = StateDir(TRUE, TRUE, <<StateFile("file", FALSE, "ok", <<"FILEA", ".RAR">>)>>)
    /\ resume_urls = {<<"https://", "host", "/", "dl", "/", "AAA", "#", "fileA", ".rar">>,
                      <<"https://", "host", "/", "dl", "/", "BBB", "#", "fileB", ".rar">>}
    /\ reconciled[1] = {<<"https://", "host", "/", "dl", "/", "AAA", "#", "fileA", ".rar">>}

\* C26: reconcile applied to the set it returned, with the same state
\* directory, returns that set again.
C26_Idempotent ==
    (scope = "reconcile" /\ Len(reconciled) >= 2)
    => \A k \in 2..Len(reconciled) : reconciled[k] = reconciled[1]

\* the first call removes some URLs and keeps others; the second removes none
C26_Witness ==
    /\ scope = "reconcile" /\ Len(reconciled) = 2
    /\ reconciled[1] /= resume_urls /\ reconciled[1] /= {}
    /\ reconciled[2] = reconciled[1]

----------------------------------------------------------------------------
(* queue_parts *)

\* the queue_download calls that IDM ended with exit code 0
Taken == {i \in 1..Len(idm) : idm[i].outcome = "ok"}

\* the URLs IDM has taken into its queue
TakenByIdm == {idm[i].url : i \in Taken}

\* C27: when queue_parts returns after an interrupt, the resume set it returns
\* is the resume set it was given plus every URL that IDM took before the
\* interrupt, and queued_count counts those URLs.
C27_InterruptKeepsQueued ==
    (scope = "queue" /\ qpc = "returned" /\ interrupted)
    => /\ updated_resume = resume_urls \cup TakenByIdm
       /\ ~dry_run => queued_count = Cardinality(Taken)

\* the interrupt arrives after IDM has taken the only part and before
\* updated_resume.add: queue_parts returns (0, 0, set(), True)
C27_Witness ==
    /\ scope = "queue" /\ qpc = "returned" /\ interrupted
    /\ Len(qparts) = 1 /\ resume_urls = {} /\ ~dry_run
    /\ idm = <<Submission(qparts[1], "ok")>>
    /\ updated_resume = {} /\ queued_count = 0 /\ skipped_count = 0

\* the parts the loop is through with
Done == 1..(qi - 1)

\* the part at position k carries a URL of the resume set or of an earlier part
KnownUrl(k) ==
    \/ qparts[k].url \in resume_urls
    \/ \E j \in 1..(k - 1) : qparts[j].url = qparts[k].url

\* C29: no URL of the resume set given is handed to queue_download, no URL is
\* handed to it twice, whatever the outcome of the first call, and every part
\* that carries a URL of the resume set or of an earlier part is counted as
\* skipped: a part is either counted as skipped or handed to queue_download
\* (or, in a dry run, counted as queued).
C29_NoResubmission ==
    scope = "queue"
    => /\ \A i \in 1..Len(idm) : idm[i].url \notin resume_urls
       /\ \A i, j \in 1..Len(idm) : i < j => idm[i].url /= idm[j].url
       /\ \A i \in 1..Len(idm) :
             \E k \in 1..Len(qparts) :
                 /\ ~KnownUrl(k)
                 /\ idm[i] = Submission(qparts[k], idm[i].outcome)
       /\ skipped_count >= Cardinality({k \in Done : KnownUrl(k)})
       /\ qpc = "loop"
          => skipped_count + (IF dry_run THEN queued_count ELSE Len(idm)) = qi - 1

\* the first part was handed to IDM, which failed; the second part carries the
\* same URL and is skipped
C29_Witness ==
    /\ scope = "queue" /\ qpc = "returned" /\ ~interrupted
    /\ Len(qparts) = 2 /\ qparts[1].url = qparts[2].url
    /\ idm = <<Submission(qparts[1], "CalledProcessError")>>
    /\ skipped_count = 1 /\ queued_count = 0
    /\ updated_resume = resume_urls

\* the effective existing-file action for the next part is "skip": the sticky
\* action, else the configured one, else what the prompt is answered with
EffectiveSkip ==
    \/ sticky_existing_action = Some("skip")
    \/ sticky_existing_action = None /\ config.existing_file_action = "skip"
    \/ /\ sticky_existing_action = None /\ config.existing_file_action = "ask"
       /\ \E answer \in {"s", "k", "EOF"} : prompts' = Append(prompts, answer)

\* C30: a step of the loop on a part whose URL is new, whose target file
\* exists and for which the effective action is "skip" counts the part as
\* skipped and goes on to the next part: IDM is not called, the download
\* directory is left as it is and the URL is not in the resume set.
C30_ExistingFileSkipped ==
    [][(/\ scope = "queue" /\ qpc = "loop" /\ qi <= Len(qparts) /\ ~interrupted'
        /\ qparts[qi].url \notin (queue_seen \cup resume_urls)
        /\ \E e \in files : e.name = qparts[qi].filename
        /\ EffectiveSkip)
       => /\ skipped_count' = skipped_count + 1
          /\ queued_count' = queued_count
          /\ idm' = idm
          /\ files' = files
          /\ updated_resume' = updated_resume
          /\ qparts[qi].url \notin updated_resume'
          /\ qi' = qi + 1 /\ qpc' = "loop"]_vars

\* both target files exist and the prompt is answered "k" (skip all) at the
\* first part: both parts are skipped and the prompt is shown once
C30_Witness ==
    /\ scope = "queue" /\ qpc = "returned" /\ ~interrupted /\ ~dry_run
    /\ config.existing_file_action = "ask"
    /\ Len(qparts) = 2 /\ qparts[1].url /= qparts[2].url
    /\ prompts = <<"k">>
    /\ skipped_count = 2 /\ queued_count = 0
    /\ idm = <<>> /\ updated_resume = {}
    /\ files = {Entry(<<"a", ".rar">>, "file"), Entry(<<"b", ".rar">>, "file")}

\* the URLs whose submission to the download manager ended without error
Submitted == {idm[i].url : i \in {j \in 1..Len(idm) : idm[j].outcome = "ok"}}

\* C36: the resume set of queue_parts holds every URL of the resume_urls
\* argument, and a URL beyond those only if queue_download for that URL ended
\* without error; in a dry run it equals the argument; the argument itself is
\* never changed.
C36_ResumeSetGrowsBySubmissions ==
    /\ [](scope = "queue"
          => /\ resume_urls \subseteq updated_resume
             /\ (updated_resume \ resume_urls) \subseteq Submitted
             /\ dry_run => updated_resume = resume_urls)
    /\ [][resume_urls' = resume_urls]_vars

\* AAA was queued before and is a resume skip; BBB is taken by IDM and joins
\* the set
C36_Witness ==
    /\ scope = "queue" /\ qpc = "returned" /\ ~dry_run /\ ~interrupted
    /\ resume_urls = {<<"https://", "host", "/", "dl", "/", "AAA">>}
    /\ updated_resume = QueueUrls
    /\ Submitted = {<<"https://", "host", "/", "dl", "/", "BBB">>}
    /\ skipped_count = 1 /\ queued_count = 1

----------------------------------------------------------------------------
(* run: failed submissions, the queue start, the dry run *)

\* the errors of a submission that _queue_or_dry_run logs
LoggedErrors == {"CalledProcessError", "TimeoutExpired", "PermissionError", "Exception"}

\* the submissions that ended in a logged error
FailedSubmissions == {i \in 1..Len(idm) : idm[i].outcome \in LoggedErrors}

\* the step in which a queue_download call ends, and how it ended
SubmissionEnds == Len(idm') = Len(idm) + 1
Ended == idm'[Len(idm')].outcome

\* C37: a submission that ends with a non-zero exit code, a timeout, a
\* permission error or another exception leaves the counters and the resume
\* set as they are and the loop goes on with the next part, so that a run
\* that is not interrupted accounts for every part as queued, skipped or
\* failed and the resume set has no URL of a failed submission; a
\* FileNotFoundError alone leaves queue_parts, and then run saves no resume
\* state, starts nothing, and the resume state file stays as it was.
C37_FailedSubmissionGoesOn ==
    /\ [][SubmissionEnds =>
            /\ Ended \in LoggedErrors =>
                 /\ queued_count' = queued_count /\ skipped_count' = skipped_count
                 /\ updated_resume' = updated_resume
                 /\ qpc' = "loop" /\ qi' = qi + 1 /\ ~interrupted'
                 /\ exit_code' = None
            /\ qpc' = "raised" <=> Ended = "FileNotFoundError"
         ]_vars
    /\ [][qpc = "raised" => (resume_file' = resume_file /\ saves' = saves)]_vars
    /\ [](/\ \A i \in FailedSubmissions : idm[i].url \notin updated_resume
          /\ (qpc = "returned" /\ ~interrupted)
             => queued_count + skipped_count + Cardinality(FailedSubmissions) = Len(qparts)
          /\ qpc = "raised" => (saves = <<>> /\ started = <<>> /\ runpc = "queueing"))

\* the first submission times out, the second part is queued all the same
\* and the saved resume state names the second URL only
C37_Witness ==
    /\ runpc = "returned" /\ ~dry_run /\ resume_mode /\ ~interrupted
    /\ Len(idm) = 2 /\ idm[1].outcome = "TimeoutExpired" /\ idm[2].outcome = "ok"
    /\ queued_count = 1 /\ skipped_count = 0
    /\ updated_resume = {idm[2].url} /\ resume_file = {idm[2].url}
    /\ idm[1].url /= idm[2].url

\* C38: start_queue (and launch_via_shortcut before it) is called only when
\* auto_start_queue is on, the run is not a dry run, at least one part was
\* queued, queue_only is on and queue_parts was not interrupted, and a run
\* that returns under these conditions has called it; after an interrupt
\* nothing is started, whatever was queued.
C38_QueueStartGuarded ==
    /\ started /= <<>>
       => /\ config.auto_start_queue /\ ~dry_run /\ queued_count >= 1
          /\ config.queue_only /\ ~interrupted
          /\ started = (IF config.launch_idm_shortcut THEN <<"launch_via_shortcut">>
                        ELSE <<>>) \o <<"start_queue">>
    /\ (runpc = "returned" /\ config.auto_start_queue /\ ~dry_run /\ queued_count >= 1
          /\ config.queue_only /\ ~interrupted)
       => started /= <<>>
    /\ interrupted => started = <<>>

\* one part queued, then the interrupt: run returns without starting the queue
C38_Witness ==
    /\ runpc = "returned" /\ interrupted /\ queued_count = 1
    /\ config.auto_start_queue /\ config.queue_only /\ ~dry_run
    /\ Len(qparts) = 2 /\ Len(idm) = 1
    /\ started = <<>>

\* C39: a dry run submits no URL to the download manager, deletes no file of
\* the download directory, does not reconcile the resume state, does not save
\* it (the resume state file stays as it was) and starts nothing; every part
\* it looks at is counted as skipped or as queued.
C39_DryRunHasNoEffect ==
    /\ [](dry_run
          => /\ idm = <<>> /\ reconciled = <<>> /\ saves = <<>> /\ started = <<>>
             /\ qpc \notin {"queue", "submitted", "raised"}
             /\ qpc \in {"loop", "returned"}
                => queued_count + skipped_count = qi - 1
             /\ (qpc = "returned" /\ ~interrupted)
                => queued_count + skipped_count = Len(qparts))
    /\ [][dry_run => (files' = files /\ resume_file' = resume_file)]_vars

\* a dry run in resume mode under the overwrite policy: the first part has
\* its file on disk and is counted as queued, the file stays; the second is a
\* resume skip, from a resume state that a reconciliation would have emptied
C39_Witness ==
    /\ runpc = "returned" /\ dry_run /\ resume_mode /\ exit_code = Some(0)
    /\ config.existing_file_action = "overwrite" /\ config.auto_start_queue
    /\ config.queue_only /\ config.validate_resume_with_idm
    /\ files = {Entry(<<"a", ".rar">>, "file")}
    /\ Len(qparts) = 2 /\ qparts[1].filename = <<"a", ".rar">>
    /\ resume_file = {<<"https://", "host", "/", "dl", "/", "BBB">>}
    /\ resume_urls = resume_file
    /\ reconcile_resume_urls(resume_file, state_dir) = {}
    /\ queued_count = 1 /\ skipped_count = 1

----------------------------------------------------------------------------
(* Interrupts in the generation phase *)

\* main() has returned after an interrupt in the generation phase
GenerationInterrupted == scope \in {"generate", "input"} /\ exit_code = Some(1)

\* the stop reasons of a generation that was not interrupted
NormalStopReasons ==
    {Completed.kind, ReachedEndIndex.kind, DuplicateUrl.kind, ReachedMaxPart.kind,
     InputProcessed.kind, ReasonHTTP, ReasonHTML, ReasonNotRar, ReasonTooSmall,
     ReasonInvalidUrl, ReasonTimeout, ReasonRequestError}

\* C28: after an interrupt in the generation phase, a report is handed to the
\* caller that holds the parts discovered before the interrupt and whose
\* outcome is none of the normal stop reasons.
C28_InterruptPreservesParts ==
    GenerationInterrupted
    => /\ report /= None
       /\ report[1].parts = parts
       /\ report[1].stop_reason.kind \notin NormalStopReasons

\* two parts were discovered in sequential mode when the interrupt arrived in
\* the third probe: no report is returned and main() returns 1
C28_Witness ==
    /\ scope = "generate" /\ exit_code = Some(1)
    /\ Len(parts) = 2 /\ Len(probes) = 2
    /\ gpc = "raised" /\ vpc = "raised"
    /\ report = None

----------------------------------------------------------------------------
(* One probe: retries, the URL check, the fallback request *)

HeadCount == Cardinality({i \in 1..Len(netlog) : netlog[i].req = "HEAD"})
GetCount == Cardinality({i \in 1..Len(netlog) : netlog[i].req = "GET"})
ZeroSizeHead(e) == e.req = "HEAD" /\ e.kind = "response" /\ e.num = 0
ProbeOver == vpc \in {"returned", "raised"}

\* a step in which a request ends in a timeout or a request error
RequestFailed ==
    /\ Len(netlog') > Len(netlog)
    /\ netlog'[Len(netlog) + 1].kind \in {"timeout", "error"}

\* C3: a probe makes at most retry_count + 1 attempts; a timeout or request error
\* is followed by another attempt iff it was not in attempt retry_count + 1; when
\* that last attempt fails validate() returns is_valid = false, status_code None,
\* size 0 and the reason "Timeout" or "Request error: {detail}" of that failure.
C3_BoundedRetries ==
    [][/\ HeadCount' <= config.retry_count + 1
       /\ attempt' <= config.retry_count + 1
       /\ RequestFailed =>
            LET failed == netlog'[Len(netlog) + 1]
            IN  IF HeadCount' = config.retry_count + 1
                THEN /\ vpc' = "returned"
                     /\ result' = Some(ValidationResult(FALSE, None, 0,
                                    IF failed.kind = "timeout" THEN ReasonTimeout
                                    ELSE ReasonRequestError, 0, failed.detail))
                ELSE /\ vpc' = "head"
                     /\ result' = None
                     /\ attempt' = attempt + 1
      ]_vars

\* two timeouts, then a request error in the third and last attempt
C3_Witness ==
    /\ scope = "validate" /\ vpc = "returned" /\ config.retry_count = 2
    /\ HeadCount = 3 /\ netlog[1].kind = "timeout"
    /\ result = Some(ValidationResult(FALSE, None, 0, ReasonRequestError, 0,
                                      "too many redirects"))

\* the URLs of ProbeUrls without a scheme or without a network location
MalformedUrls ==
    {<<"host", "/", "file", ".rar">>, <<"https://", "/", "file", ".rar">>,
     <<"mailto:", "file", ".rar">>, <<>>}

\* C5: on a URL without scheme or without network location validate() makes no
\* HEAD, no GET and no sleep, and returns is_valid = false, status_code None and
\* the reason "Invalid URL format".
C5_MalformedUrlNoNetwork ==
    (scope = "validate" /\ vurl \in MalformedUrls /\ vpc /= "call")
    => /\ vpc = "returned"
       /\ netlog = <<>> /\ headResp = None /\ getResp = None
       /\ result = Some(ValidationResult(FALSE, None, 0, ReasonInvalidUrl, 0, ""))

C5_Witness ==
    /\ scope = "validate" /\ vpc = "returned"
    /\ vurl = <<"https://", "/", "file", ".rar">>
    /\ result /= None /\ result[1].reason.kind = ReasonInvalidUrl

\* C6 as first stated: in one validate() call exactly one fallback request is
\* made when a HEAD response reported size 0 with the option on, and none
\* otherwise.
C6_OneFallbackPerProbe ==
    (scope = "validate" /\ ProbeOver)
    => IF config.head_fallback_get /\ \E i \in 1..Len(netlog) : ZeroSizeHead(netlog[i])
       THEN GetCount = 1
       ELSE GetCount = 0

\* C6, amended: every HEAD response that reports size 0 with the option on is
\* followed at once by exactly one fallback request, and no fallback request is
\* made otherwise; one validate() call therefore makes one fallback request per
\* such HEAD response: a single one unless a fallback request itself failed and
\* the attempt was retried, and never more than retry_count + 1.
C6_OneFallbackPerHeadResponse ==
    scope = "validate"
    => /\ \A i \in 1..Len(netlog) :
             netlog[i].req = "GET" =>
                 config.head_fallback_get /\ i > 1 /\ ZeroSizeHead(netlog[i - 1])
       /\ \A i \in 1..Len(netlog) :
             (config.head_fallback_get /\ ZeroSizeHead(netlog[i])) =>
                 IF i < Len(netlog) THEN netlog[i + 1].req = "GET" ELSE vpc = "get"
       /\ GetCount <= config.retry_count + 1
       /\ GetCount > 1 =>
             \E i \in 1..Len(netlog) :
                 netlog[i].req = "GET" /\ netlog[i].kind \in {"timeout", "error"}
       /\ (ProbeOver /\ config.head_fallback_get
             /\ \E i \in 1..Len(netlog) : ZeroSizeHead(netlog[i])) => GetCount >= 1

\* HEAD without a size, one fallback request, a valid result
C6_Witness ==
    /\ scope = "validate" /\ vpc = "returned" /\ config.head_fallback_get
    /\ Len(netlog) = 2 /\ ZeroSizeHead(netlog[1]) /\ netlog[2].req = "GET"
    /\ result /= None /\ result[1].is_valid

\* the header maps of ProbeResponses whose size resolves to 1 or less
TinyHeaders(h) ==
    \/ h.content_length \in {Some(<<"0">>), Some(<<"1">>)}
    \/ h.content_length = None /\ h.content_range = None

\* the URLs of ProbeUrls whose path or fragment names a .rar file
RarNamedProbeUrls ==
    {<<"https://", "host", "/", "file", ".rar">>,
     <<"https://", "host", "/", "x", "#", "name", ".RAR">>}

FallbackWasTiny ==
    /\ scope = "validate" /\ vpc = "returned" /\ getResp /= None
    /\ TinyHeaders(getResp[1].headers)
    /\ config.min_size_bytes > 0

TooSmallZero == [kind |-> ReasonTooSmall, num |-> 0, detail |-> ""]

\* C7 as first stated: a fallback response whose size resolves to 1 or less
\* gives, under a minimum size above 0, an invalid result with size_bytes 0 and
\* the reason "File too small: 0 bytes".
C7_TinyFallbackTooSmall ==
    FallbackWasTiny
    => /\ ~result[1].is_valid
       /\ result[1].size_bytes = 0
       /\ result[1].reason = TooSmallZero

\* C7, amended: such a result is invalid with size_bytes 0, and its reason is
\* "File too small: 0 bytes" whenever no earlier check of the classification
\* decides it: the status is 200 or 206, the response is not rejected as HTML
\* and the RAR check passes or is off.
C7_TinyFallbackZeroSize ==
    FallbackWasTiny
    => /\ ~result[1].is_valid
       /\ result[1].size_bytes = 0
       /\ (/\ getResp[1].status_code \in {200, 206}
           /\ ~(config.reject_html_content /\ getResp[1].headers.content_type
                    = Some(<<"text/html", ";", " ", "charset=utf-8">>))
           /\ (config.require_rar_extension => vurl \in RarNamedProbeUrls))
          => result[1].reason = TooSmallZero

\* the shape of test_validator_treats_one_byte_probe_as_unknown_size
C7_Witness ==
    /\ FallbackWasTiny
    /\ vurl = <<"https://", "host", "/", "dl", "/", "token">>
    /\ ~config.require_rar_extension
    /\ getResp[1].headers.content_length = Some(<<"1">>)
    /\ getResp[1].headers.content_range = Some(<<"bytes 0-0", "/", "7">>)
    /\ result[1].reason = TooSmallZero /\ result[1].status_code = Some(200)

\* the sleeps of the probe in order, and the number of them before event i
Sleeps == SelectSeq(netlog, LAMBDA e : e.req = "sleep")
SleepsBefore(i) == Cardinality({j \in 1..(i - 1) : netlog[j].req = "sleep"})
FailedRequest(e) == e.req \in {"HEAD", "GET"} /\ e.kind \in {"timeout", "error"}

\* validate() returned because the last attempt timed out or failed
Exhausted ==
    /\ vpc = "returned"
    /\ result[1].reason.kind \in {ReasonTimeout, ReasonRequestError}

Diverted(e) == config.head_fallback_get /\ ZeroSizeHead(e)

\* the size a logged response is classified with
ClassifiedSize(e) == IF e.req = "GET" /\ e.num <= 1 THEN 0 ELSE e.num

\* C32 as first stated: once an attempt has received a response the probe makes
\* no further attempt and does not sleep, and an exception of another type is
\* the last thing that happens in the probe.
C32_ResponseEndsProbe ==
    scope = "validate"
    => /\ \A i \in 1..Len(netlog) :
             netlog[i].kind = "response" =>
                 \A j \in (i + 1)..Len(netlog) : netlog[j].req = "GET"
       /\ \A i \in 1..Len(netlog) :
             netlog[i].kind = "exception" => i = Len(netlog) /\ vpc = "raised"

\* C32, amended: a response that is classified (every fallback response, and
\* every HEAD response except one of size 0 under head_fallback_get) ends the
\* probe at once: it is the last event, validate() has returned its
\* classification, whatever that is, and no request or sleep follows.  A HEAD
\* response of size 0 under head_fallback_get is not classified: the fallback
\* request of the same attempt follows it directly, and a timeout or failure
\* of that request is retried like any other.  An exception of another type
\* leaves validate() at its first occurrence, without a result.
C32_ClassificationEndsProbe ==
    scope = "validate"
    => /\ \A i \in 1..Len(netlog) :
             netlog[i].kind = "response" =>
                 IF netlog[i].req = "HEAD" /\ Diverted(netlog[i])
                 THEN IF i < Len(netlog) THEN netlog[i + 1].req = "GET" ELSE vpc = "get"
                 ELSE /\ i = Len(netlog) /\ vpc = "returned"
                      /\ LET got == IF netlog[i].req = "GET" THEN getResp ELSE headResp
                         IN  /\ got /= None
                             /\ result = Some(_validate_response(config, vurl,
                                               got[1].status_code, ClassifiedSize(netlog[i]),
                                               got[1].headers))
       /\ \A i \in 1..Len(netlog) :
             netlog[i].kind = "exception"
             => i = Len(netlog) /\ vpc = "raised" /\ result = None
       /\ \A i \in 1..Len(netlog) :
             (netlog[i].req = "HEAD" /\ i > 1) => netlog[i - 1].req = "sleep"

\* a timeout, then HTTP 404 in the second of three attempts: the probe is over
C32_Witness ==
    /\ scope = "validate" /\ vpc = "returned" /\ config.retry_count = 2
    /\ Len(netlog) = 3 /\ netlog[1].kind = "timeout" /\ netlog[3].kind = "response"
    /\ result[1].reason = [kind |-> ReasonHTTP, num |-> 404, detail |-> ""]

\* what int() makes of each Content-Length of ContentLengths: <<value>>, or
\* <<>> for a text that is not an integer
LengthValue(cl) ==
    CASE cl = <<"0">> -> Some(0)
      [] cl = <<"1">> -> Some(1)
      [] cl = <<"5">> -> Some(5)
      [] cl = <<"-", "1">> -> Some(0 - 1)
      [] cl = <<" ", "7">> -> Some(7)
      [] cl = <<"x">> -> None

\* the integer after the last "/" of each Content-Range of ContentRanges
RangeTotal(cr) ==
    CASE cr = <<"bytes 0-0", "/", "1">> -> Some(1)
      [] cr = <<"bytes 0-0", "/", "7">> -> Some(7)
      [] cr = <<"bytes 0-0", "/", "*">> -> None
      [] cr = <<"bytes">> -> None

OrZero(v) == IF v = None THEN 0 ELSE v[1]

\* the size the precedence gives
SizeByPrecedence(h) ==
    IF h.content_length /= None THEN OrZero(LengthValue(h.content_length[1]))
    ELSE IF h.content_range /= None THEN OrZero(RangeTotal(h.content_range[1]))
    ELSE 0

\* C33: the size read from a response is the integer value of Content-Length
\* when that header is present (0 when it is not an integer), whatever
\* Content-Range says; without Content-Length it is the integer after the last
\* "/" of Content-Range (0 when absent or not an integer).  The HEAD response is
\* handed to the fallback iff that size is 0 and head_fallback_get is on; a
\* result with status 200 or 206 carries that size, the fallback's with 1 or
\* less coerced to 0.  So a fallback 206 response with Content-Length 1 reads
\* as 1 and ends with size 0 whatever total its Content-Range has.
C33_SizePrecedence ==
    scope = "extract"
    => /\ headResp /= None =>
            /\ netlog[1].num = SizeByPrecedence(headResp[1].headers)
            /\ (config.head_fallback_get /\ netlog[1].num = 0) <=> (vpc = "get" \/ Len(netlog) = 2)
            /\ (vpc = "returned" /\ Len(netlog) = 1 /\ headResp[1].status_code \in {200, 206})
               => result[1].size_bytes = SizeByPrecedence(headResp[1].headers)
       /\ getResp /= None =>
            LET h == getResp[1].headers
            IN  /\ netlog[2].num = SizeByPrecedence(h)
                /\ vpc = "returned"
                /\ getResp[1].status_code \in {200, 206}
                   => result[1].size_bytes
                        = IF SizeByPrecedence(h) <= 1 THEN 0 ELSE SizeByPrecedence(h)
                /\ (getResp[1].status_code = 206 /\ h.content_length = Some(<<"1">>))
                   => netlog[2].num = 1 /\ result[1].size_bytes = 0

\* the response of _FakeTinyProbeSession with a larger total: Content-Length 1,
\* Content-Range bytes 0-0/7
C33_Witness ==
    /\ scope = "extract" /\ vpc = "returned" /\ getResp /= None
    /\ getResp[1].status_code = 206
    /\ getResp[1].headers.content_length = Some(<<"1">>)
    /\ getResp[1].headers.content_range = Some(<<"bytes 0-0", "/", "7">>)
    /\ netlog[2].num = 1 /\ result[1].size_bytes = 0

\* validate() returned the classification of a fallback response
FallbackTaken == scope = "validate" /\ vpc = "returned" /\ getResp /= None

\* the size of a fallback response of ProbeResponses after the coercion
FallbackSize(h) ==
    IF TinyHeaders(h) THEN 0
    ELSE IF h.content_length = Some(<<"5">>) THEN 5
    ELSE 7

\* a fallback response of ProbeResponses passes every check, read off the
\* fallback response, the URL and the options alone
FallbackValid ==
    LET r == getResp[1]
    IN  /\ r.status_code \in {200, 206}
        /\ ~(config.reject_html_content
               /\ r.headers.content_type = Some(<<"text/html", ";", " ", "charset=utf-8">>))
        /\ config.require_rar_extension => vurl \in RarNamedProbeUrls
        /\ FallbackSize(r.headers) >= config.min_size_bytes

\* C35: when the fallback request was taken the result is the classification
\* of the fallback response alone: its status code and its size, valid iff
\* the fallback response passes the checks, whatever the status and headers
\* of the HEAD response were; a HEAD response with status 404 and no size
\* followed by a valid fallback response gives is_valid with the fallback's
\* status code.
C35_FallbackDecides ==
    FallbackTaken
    => /\ headResp /= None /\ _extract_size_from_headers(headResp[1].headers) = 0
       /\ result[1].status_code = Some(getResp[1].status_code)
       /\ result[1].is_valid <=> FallbackValid
       /\ result[1].size_bytes
            = IF getResp[1].status_code \in {200, 206}
              THEN FallbackSize(getResp[1].headers) ELSE 0
       /\ result[1] = _validate_response(config, vurl, getResp[1].status_code,
                                         FallbackSize(getResp[1].headers),
                                         getResp[1].headers)
       /\ (headResp[1].status_code \notin {200, 206} /\ FallbackValid)
          => result[1].is_valid /\ result[1].status_code = Some(getResp[1].status_code)

\* HEAD answers 404 without a size, the fallback 200 with five bytes
C35_Witness ==
    /\ FallbackTaken
    /\ headResp[1].status_code = 404 /\ headResp[1].headers.content_length = None
    /\ getResp[1].status_code = 200
    /\ getResp[1].headers.content_length = Some(<<"5">>)
    /\ result[1].is_valid /\ result[1].status_code = Some(200)
    /\ result[1].size_bytes = 5

----------------------------------------------------------------------------
(* Termination of a generation run *)

\* generate() has returned its report
GenerateReturned == gpc = "returned" /\ report /= None

\* a request raised an exception that is neither a timeout nor a request
\* error: it is not caught and leaves validate() and generate()
UncaughtException == gpc = "raised" /\ vpc = "raised"

\* C34: in a sequential generation run whose requests all return or fail, no
\* probe makes more than retry_count + 1 attempts, the loop makes at most
\* max_part probes, and generate() eventually returns a report; the run ends
\* without one only when a request raises an exception of a type that
\* validate() does not catch.
C34_Terminates ==
    /\ [](/\ HeadCount <= config.retry_count + 1
          /\ attempt <= config.retry_count + 1
          /\ examined <= config.max_part
          /\ Len(probes) <= config.max_part
          /\ GenerateReturned => report[1].examined_count <= config.max_part)
    /\ <>(GenerateReturned \/ UncaughtException)

\* three valid probes, the last one after a timeout, and the cap ends the run
C34_Witness ==
    /\ scope = "generate" /\ GenerateReturned
    /\ config.max_part = 3 /\ Len(probes) = 3 /\ config.retry_count = 1
    /\ HeadCount = 2 /\ netlog[1].kind = "timeout"
    /\ report[1].stop_reason = ReachedMaxPart

----------------------------------------------------------------------------
(* The classification of a response.  The tables below say, value by value, *)
(* what each header value and URL of the classification's inputs is.        *)

\* the content types that begin with text/html, and those that are text/html
HtmlLikeContentTypes ==
    {Some(<<"text/html", ";", " ", "charset=utf-8">>), Some(<<" ", "TEXT/HTML">>),
     Some(<<"text/html", "-sandboxed">>)}
HtmlContentTypes ==
    {Some(<<"text/html", ";", " ", "charset=utf-8">>), Some(<<" ", "TEXT/HTML">>)}

\* the RAR content types
ArchiveContentTypes ==
    {Some(<<"APPLICATION/VND.RAR", ";", "x">>), Some(<<"application/x-rar-compressed">>)}

\* the content dispositions whose filename ends in .rar
RarDispositions ==
    {Some(<<"attachment", ";", " ", "filename=", "\"", "a", ".rar", "\"">>),
     Some(<<"filename=", "\"", "\"", ";", "filename=", "b", ".RAR", " ">>),
     Some(<<"filename=", "a", ".txt", ";", "filename*=UTF-8''", "\"", "c", ".rar", "\"">>)}

\* the URLs whose last path segment or last fragment segment ends in .rar
RarNamedUrls ==
    {<<"https://", "host", "/", "file", ".rar">>,
     <<"https://", "host", "/", "x", "#", "name", ".RAR">>}

Classified == scope = "classify" /\ vpc = "returned"
StatusOk == resp.status_code \in {200, 206}
NameHint == vurl \in RarNamedUrls \/ resp.headers.content_disposition \in RarDispositions
RarHint == NameHint \/ resp.headers.content_type \in ArchiveContentTypes

Invalid(kind, num) == [is_valid |-> FALSE, reason |-> [kind |-> kind, num |-> num, detail |-> ""]]

\* the ordered reference: the first matching check decides
Reference ==
    IF ~StatusOk THEN Invalid(ReasonHTTP, resp.status_code)
    ELSE IF config.reject_html_content /\ resp.headers.content_type \in HtmlLikeContentTypes
    THEN Invalid(ReasonHTML, 0)
    ELSE IF config.require_rar_extension /\ ~RarHint
    THEN Invalid(ReasonNotRar, 0)
    ELSE IF resp.size_bytes < config.min_size_bytes
    THEN Invalid(ReasonTooSmall, resp.size_bytes)
    ELSE [is_valid |-> TRUE, reason |-> [kind |-> ReasonOK, num |-> 0, detail |-> ""]]

\* C4: the classification applies (1) status, (2) HTML, (3) RAR hint, (4) size,
\* (5) OK in this order and the first match decides, for every status, content
\* type, RAR hint, size and option.
C4_OrderedClassification ==
    Classified
    => /\ result[1].is_valid = Reference.is_valid
       /\ result[1].reason = Reference.reason

\* every check would reject this response; the status check, being first, does
C4_Witness ==
    /\ Classified /\ resp.status_code = 404
    /\ config.reject_html_content /\ resp.headers.content_type \in HtmlContentTypes
    /\ config.require_rar_extension /\ ~RarHint
    /\ resp.size_bytes < config.min_size_bytes
    /\ result[1].reason = [kind |-> ReasonHTTP, num |-> 404, detail |-> ""]

\* C8 as first stated: a text/html response is always classified as a landing
\* page when HTML rejection is on.
C8_HtmlAlwaysRejected ==
    (Classified /\ config.reject_html_content
        /\ resp.headers.content_type \in HtmlContentTypes)
    => /\ ~result[1].is_valid
       /\ result[1].reason.kind = ReasonHTML

\* C8, amended: a text/html response with status 200 or 206 is classified as a
\* landing page when HTML rejection is on, whatever its size, its other headers,
\* the URL and the other options.
C8_HtmlRejectedWhenStatusOk ==
    (Classified /\ config.reject_html_content
        /\ resp.headers.content_type \in HtmlContentTypes /\ StatusOk)
    => /\ ~result[1].is_valid
       /\ result[1].reason.kind = ReasonHTML

\* a large text/html response at a .rar URL, RAR enforcement off
C8_Witness ==
    /\ Classified /\ config.reject_html_content /\ ~config.require_rar_extension
    /\ resp.headers.content_type = Some(<<" ", "TEXT/HTML">>)
    /\ resp.status_code = 206 /\ resp.size_bytes = 5
    /\ vurl = <<"https://", "host", "/", "file", ".rar">>
    /\ result[1].reason.kind = ReasonHTML

NoRarHintEnforced ==
    /\ Classified /\ config.require_rar_extension
    /\ resp.headers.content_type \notin ArchiveContentTypes
    /\ ~NameHint

\* C9 as first stated: with extension enforcement on, a response with a
\* non-archive content type and no .rar hint in path, fragment or content
\* disposition is always classified "Target is not recognized as RAR file".
C9_NonRarAlwaysRejected ==
    NoRarHintEnforced
    => /\ ~result[1].is_valid
       /\ result[1].reason.kind = ReasonNotRar

\* C9, amended: it is classified so when its status is 200 or 206 and it is not
\* rejected as HTML (HTML rejection off, or a content type that does not begin
\* with text/html).
C9_NonRarRejectedWhenReached ==
    (/\ NoRarHintEnforced
     /\ StatusOk
     /\ ~(config.reject_html_content /\ resp.headers.content_type \in HtmlLikeContentTypes))
    => /\ ~result[1].is_valid
       /\ result[1].reason.kind = ReasonNotRar

\* the shape of test_validator_rejects_non_rar_target, with a size below the minimum
C9_Witness ==
    /\ NoRarHintEnforced /\ resp.status_code = 200
    /\ resp.headers.content_type = Some(<<"application/octet-stream">>)
    /\ vurl = <<"https://", "host", "/", "dl", "/", "token">>
    /\ resp.size_bytes < config.min_size_bytes
    /\ result[1].reason.kind = ReasonNotRar

====
